---- MODULE Spec2Model ----
(***************************************************************************)
(* Object ingestion and multipart upload core of the S3 API                *)
(* (src/src/api/s3/put.rs): the stream chunker, the block pipeline, the    *)
(* single PUT (save_stream) with its scoped cleanup, and the multipart     *)
(* operations, over the object, version and block-reference tables.        *)
(***************************************************************************)
EXTENDS Integers, Sequences, FiniteSets, TLC

(* ---- bounds of the model ---- *)
MaxBlockSize == 3
MaxChunks == 3
MaxChunkLen == 2
MaxCalls == 5

(* ---- program constants (scaled) ---- *)
INLINE_THRESHOLD == 3

VARIABLES
  source,          \* the byte stream given to a StreamChunker run on its own
  chunker,         \* that StreamChunker
  emitted,         \* the results of the successive calls of next on it
  block_size,      \* garage.config.block_size
  quotas,          \* bucket.state.quotas
  object_table,    \* the row of (bucket, key): a set of ObjectVersion
  version_table,   \* version uuid -> Version row
  block_ref_table, \* set of BlockRef rows
  block_store,     \* hashes of the blocks the block manager stores
  req,             \* the requests: inputs, position and locals of each
  faults,          \* number of failed calls and dropped tasks still to come
  history,         \* the table writes that succeeded, by whom
  bucket_table,       \* the ids of the buckets
  bucket_alias_table, \* global alias name -> BucketAlias state
  key_table,          \* access key id -> Key state
  admin,              \* the admin requests: inputs, position and locals of each
  responses           \* the errors handlers returned, with the status sent

chunkerVars == <<source, chunker, emitted>>
tableVars == <<object_table, version_table, block_ref_table, block_store>>
coreVars == <<block_size, quotas, object_table, version_table, block_ref_table,
              block_store, req, faults, history>>
adminVars == <<bucket_table, bucket_alias_table, key_table, admin, responses>>
vars == <<source, chunker, emitted, block_size, quotas, object_table, version_table,
          block_ref_table, block_store, req, faults, history, bucket_table,
          bucket_alias_table, key_table, admin, responses>>

(* ---- bytes and byte streams ---- *)
ByteVals == {0, 1}

RECURSIVE SeqsUpTo(_, _)
SeqsUpTo(S, n) ==
  IF n = 0 THEN {<<>>}
  ELSE LET shorter == SeqsUpTo(S, n - 1)
       IN shorter \cup {Append(s, x) : s \in {t \in shorter : Len(t) = n - 1}, x \in S}

BytesUpTo(n) == SeqsUpTo(ByteVals, n)

\* an item of the body stream: Ok(bytes) or Err
OkItem(b) == [err |-> FALSE, bytes |-> b]
ErrItem == [err |-> TRUE, bytes |-> <<>>]

StreamItems == {OkItem(b) : b \in BytesUpTo(MaxChunkLen)} \cup {ErrItem}
Streams == SeqsUpTo(StreamItems, MaxChunks)

RECURSIVE StreamBytes(_)
StreamBytes(s) ==
  IF s = <<>> THEN <<>> ELSE Head(s).bytes \o StreamBytes(Tail(s))

ErrorFree(s) == \A i \in 1..Len(s) : ~s[i].err

Min(a, b) == IF a < b THEN a ELSE b
Max(a, b) == IF a < b THEN b ELSE a

(* ---- BytesBuf ---- *)
BufExtend(buf, bytes) == buf \o bytes

\* take_max(n): the first min(n, len) bytes leave the buffer
TakeMax(buf, n) ==
  [taken |-> SubSeq(buf, 1, Min(n, Len(buf))),
   rest  |-> SubSeq(buf, Min(n, Len(buf)) + 1, Len(buf))]

(* ---- StreamChunker ---- *)
NewChunker(stream, bs) ==
  [stream |-> stream, read_all |-> FALSE, block_size |-> bs, buf |-> <<>>]

\* a fill that keeps only the bytes pulled last
RECURSIVE ChunkerFillOverwrites(_)
ChunkerFillOverwrites(c) ==
  IF ~c.read_all /\ Len(c.buf) < c.block_size
  THEN IF c.stream # <<>>
       THEN IF Head(c.stream).err
            THEN [c |-> [c EXCEPT !.stream = Tail(c.stream)], err |-> TRUE]
            ELSE ChunkerFillOverwrites([c EXCEPT !.stream = Tail(c.stream),
                                                 !.buf = Head(c.stream).bytes])
       ELSE ChunkerFillOverwrites([c EXCEPT !.read_all = TRUE])
  ELSE [c |-> c, err |-> FALSE]

\* the while loop of next: pull until the buffer holds a block or the
\* stream ends; a source error leaves the loop at once
RECURSIVE ChunkerFill(_)
ChunkerFill(c) ==
  IF ~c.read_all /\ Len(c.buf) < c.block_size
  THEN IF c.stream # <<>>
       THEN IF Head(c.stream).err
            THEN [c |-> [c EXCEPT !.stream = Tail(c.stream)], err |-> TRUE]
            ELSE ChunkerFill([c EXCEPT !.stream = Tail(c.stream),
                                       !.buf = BufExtend(c.buf, Head(c.stream).bytes)])
       ELSE ChunkerFill([c EXCEPT !.read_all = TRUE])
  ELSE [c |-> c, err |-> FALSE]

\* a next that hands out the whole buffer, whatever block_size is
ChunkerNextWholeBuf(c) ==
  LET f == ChunkerFill(c) IN
  IF f.err THEN [c |-> f.c, kind |-> "Err", block |-> <<>>]
  ELSE IF f.c.buf = <<>> THEN [c |-> f.c, kind |-> "None", block |-> <<>>]
  ELSE [c |-> [f.c EXCEPT !.buf = <<>>], kind |-> "Some", block |-> f.c.buf]

\* result of one call: kind "Err", "None" or "Some" (with the block)
ChunkerNext(c) ==
  LET f == ChunkerFill(c) IN
  IF f.err THEN [c |-> f.c, kind |-> "Err", block |-> <<>>]
  ELSE IF f.c.buf = <<>> THEN [c |-> f.c, kind |-> "None", block |-> <<>>]
  ELSE LET t == TakeMax(f.c.buf, f.c.block_size)
       IN [c |-> [f.c EXCEPT !.buf = t.rest], kind |-> "Some", block |-> t.taken]

(* ---- options and results ---- *)
None == [some |-> FALSE]
Some(x) == [some |-> TRUE, val |-> x]

OkRes == [kind |-> "Ok", msg |-> ""]
Pending == [kind |-> "Pending", msg |-> ""]
ErrRes(kind, msg) == [kind |-> kind, msg |-> msg]
InternalError == ErrRes("InternalError", "")
StreamError == ErrRes("StreamError", "")
Dropped == ErrRes("Dropped", "")

(* ---- digests and encodings ---- *)
Blake2sum(bytes) == [alg |-> "blake2", of |-> bytes]
Md5sum(bytes) == [alg |-> "md5", of |-> bytes]
Sha256sum(bytes) == [alg |-> "sha256", of |-> bytes]
HexEncode(d) == [hex |-> d]
Base64Encode(d) == [b64 |-> d]

\* AsyncHasher: the digest of the bytes fed so far, in the order fed
HasherNew == <<>>
HasherUpdate(h, bytes) == h \o bytes

\* a header value as sent: a text, possibly inside double quotes
HeaderValue(text, quoted) == [text |-> text, quoted |-> quoted]
TrimQuotes(v) == [v EXCEPT !.quoted = FALSE]

\* bytes no body of the model contains
WrongBytes == <<2>>

(* ---- ensure_checksum_matches ---- *)
\* a validation that compares the MD5 before the SHA-256
EnsureChecksumMatchesMd5First(data_md5sum, data_sha256sum, content_md5, content_sha256) ==
  IF content_md5.some
     /\ TrimQuotes(content_md5.val) # HeaderValue(Base64Encode(data_md5sum), FALSE)
  THEN ErrRes("BadRequest", "Unable to validate content-md5")
  ELSE IF content_sha256.some /\ content_sha256.val # data_sha256sum
  THEN ErrRes("BadRequest", "Unable to validate x-amz-content-sha256")
  ELSE OkRes

EnsureChecksumMatches(data_md5sum, data_sha256sum, content_md5, content_sha256) ==
  IF content_sha256.some /\ content_sha256.val # data_sha256sum
  THEN ErrRes("BadRequest", "Unable to validate x-amz-content-sha256")
  ELSE IF content_md5.some
          /\ TrimQuotes(content_md5.val) # HeaderValue(Base64Encode(data_md5sum), FALSE)
  THEN ErrRes("BadRequest", "Unable to validate content-md5")
  ELSE OkRes

(* ---- object versions ---- *)
HeaderVals == {"h1", "h2"}

Uploading(headers) == [tag |-> "Uploading", headers |-> headers]
Aborted == [tag |-> "Aborted"]
Meta(headers, size, etag) == [headers |-> headers, size |-> size, etag |-> etag]
CompleteInline(meta, bytes) ==
  [tag |-> "Complete", data |-> [kind |-> "Inline", meta |-> meta, bytes |-> bytes]]
CompleteFirstBlock(meta, hash) ==
  [tag |-> "Complete", data |-> [kind |-> "FirstBlock", meta |-> meta, hash |-> hash]]

ObjectVersion(uuid, timestamp, state) ==
  [uuid |-> uuid, timestamp |-> timestamp, state |-> state]

IsUploading(v) == v.state.tag = "Uploading"
IsComplete(v) == v.state.tag = "Complete"

RECURSIVE SumOver(_, _)
SumOver(S, f) ==
  IF S = {} THEN 0
  ELSE LET x == CHOOSE y \in S : TRUE IN f[x] + SumOver(S \ {x}, f)

MaxOf(S) == CHOOSE x \in S : \A y \in S : y <= x

(* ---- the object table: merge of an inserted row ---- *)
\* state merge of one version: Uploading yields to Complete and Aborted,
\* Aborted absorbs
MergeState(cur, new) ==
  IF new.tag = "Aborted" THEN new
  ELSE IF new.tag = "Complete" THEN (IF cur.tag = "Uploading" THEN new ELSE cur)
  ELSE cur

\* insert of Object::new(bucket, key, vec![v]) into the row
ObjectInsert(row, v) ==
  IF \E e \in row : e.uuid = v.uuid /\ e.timestamp = v.timestamp
  THEN {IF e.uuid = v.uuid /\ e.timestamp = v.timestamp
        THEN [e EXCEPT !.state = MergeState(e.state, v.state)] ELSE e : e \in row}
  ELSE row \cup {v}

\* object_table.get: None when the key has no row
ObjectGet(row) == IF row = {} THEN None ELSE Some(row)

\* Object::counts of the previous object: objects and bytes
PrevCounts(prev) ==
  IF ~prev.some THEN [objects |-> 0, bytes |-> 0]
  ELSE LET done == {v \in prev.val : IsComplete(v)}
       IN [objects |-> IF done = {} THEN 0 ELSE 1,
           bytes |-> SumOver(done, [v \in done |-> v.state.data.meta.size])]

(* ---- the version table ---- *)
EmptyMap == <<>>
MapPut(m, k, v) == [x \in DOMAIN m \cup {k} |-> IF x = k THEN v ELSE m[x]]
MapMerge(a, b) == [x \in DOMAIN a \cup DOMAIN b |-> IF x \in DOMAIN b THEN b[x] ELSE a[x]]

\* Version::new(uuid, bucket, key, false)
NewVersion(uuid) == [uuid |-> uuid, blocks |-> EmptyMap, parts_etags |-> EmptyMap]

VersionBlockKey(part_number, offset) == <<part_number, offset>>
VersionBlock(hash, size) == [hash |-> hash, size |-> size]

HasPartNumber(v, part_number) == part_number \in DOMAIN v.parts_etags

\* insert of a Version: the row becomes the merge of the stored one and it
VersionInsert(tbl, v) ==
  IF v.uuid \in DOMAIN tbl
  THEN [tbl EXCEPT ![v.uuid] = [uuid |-> v.uuid,
                                blocks |-> MapMerge(@.blocks, v.blocks),
                                parts_etags |-> MapMerge(@.parts_etags, v.parts_etags)]]
  ELSE [u \in DOMAIN tbl \cup {v.uuid} |-> IF u = v.uuid THEN v ELSE tbl[u]]

VersionGet(tbl, uuid) == IF uuid \in DOMAIN tbl THEN Some(tbl[uuid]) ELSE None

(* ---- the block reference table ---- *)
BlockRef(hash, version_uuid) == [block |-> hash, version |-> version_uuid, deleted |-> FALSE]

(* ---- check_quotas ---- *)
NoQuotas == [max_objects |-> None, max_size |-> None]

\* a check that compares the counters with the quotas whatever the write
\* adds
CheckQuotasAnyDiff(q, counters, size, prev_object) ==
  IF ~q.max_objects.some /\ ~q.max_size.some THEN OkRes
  ELSE LET prev == PrevCounts(prev_object)
           cnt_obj_diff == 1 - prev.objects
           cnt_size_diff == size - prev.bytes
       IN IF q.max_objects.some /\ counters.objects + cnt_obj_diff > q.max_objects.val
          THEN ErrRes("Forbidden", "Object quota is reached")
          ELSE IF q.max_size.some /\ counters.bytes + cnt_size_diff > q.max_size.val
          THEN ErrRes("Forbidden", "Bucket size quota is reached")
          ELSE OkRes

\* counters: the OBJECTS and BYTES values read from the counter table
CheckQuotas(q, counters, size, prev_object) ==
  IF ~q.max_objects.some /\ ~q.max_size.some THEN OkRes
  ELSE LET prev == PrevCounts(prev_object)
           cnt_obj_diff == 1 - prev.objects
           cnt_size_diff == size - prev.bytes
       IN IF q.max_objects.some /\ cnt_obj_diff > 0
             /\ counters.objects + cnt_obj_diff > q.max_objects.val
          THEN ErrRes("Forbidden", "Object quota is reached")
          ELSE IF q.max_size.some /\ cnt_size_diff > 0
                  /\ counters.bytes + cnt_size_diff > q.max_size.val
          THEN ErrRes("Forbidden", "Bucket size quota is reached")
          ELSE OkRes

(* ---- requests ---- *)
MaxReq == 2
MaxActive == 2
MaxClock == 2
MaxPutChunks == 2
MaxPutChunkLen == 4
QuotaBytes == 3
MaxFaults == 1

Reqs == 1..MaxReq
Clock == 1..MaxClock

NoFut == [data |-> "none", version |-> "none", block_ref |-> "none", next |-> "none"]
NewFut == [data |-> "pending", version |-> "pending", block_ref |-> "pending", next |-> "pending"]
NoWrites == [object |-> 0, version |-> 0, block_ref |-> 0, block |-> 0]

IdleReq ==
  [op |-> "none", pc |-> "idle", result |-> Pending, failed_at |-> "",
   body |-> <<>>, headers |-> "", content_md5 |-> None, content_sha256 |-> None,
   uuid |-> 0, upload_id |-> <<>>, part_number |-> 0, parts |-> <<>>,
   chunker |-> NewChunker(<<>>, 0), existing |-> None, timestamp |-> 0,
   version |-> NewVersion(0), first_block_hash |-> Blake2sum(<<>>),
   cur |-> [block |-> <<>>, hash |-> Blake2sum(<<>>), offset |-> 0],
   next_offset |-> 0, md5hasher |-> HasherNew, sha256hasher |-> HasherNew,
   fut |-> NoFut, next_block |-> None, total_size |-> 0,
   etag |-> [md5 |-> HexEncode(Md5sum(<<>>)), num_parts |-> 0], error |-> OkRes,
   cleanup |-> "none", spawns |-> 0, writes |-> NoWrites,
   returned_etag |-> None, after_final |-> FALSE, counters |-> None]

Active == Cardinality({p \in Reqs : req[p].pc \notin {"idle", "done"}})

\* requests are started in the order of their numbers
CanStart(p) ==
  /\ req[p].op = "none"
  /\ IF p = 1 THEN TRUE ELSE req[p - 1].op # "none"
  /\ Active < MaxActive

\* a generator that hands the same uuid to every request
GenUuidReused(p) == 1

\* gen_uuid: a uuid no other request has
GenUuid(p) == p

\* a return that drops the cleanup handle without spawning the task
FinishForgetsCleanup(r, res) ==
  [r EXCEPT !.pc = "done", !.result = res,
            !.failed_at = IF res = OkRes THEN "" ELSE r.pc,
            !.cleanup = IF @ = "armed" THEN "cancelled" ELSE @,
            !.spawns = @,
            \* the locals of the handler are gone
            !.chunker = IdleReq.chunker, !.existing = None, !.version = IdleReq.version,
            !.first_block_hash = IdleReq.first_block_hash, !.cur = IdleReq.cur,
            !.next_offset = 0, !.md5hasher = HasherNew, !.sha256hasher = HasherNew,
            !.fut = NoFut, !.next_block = None, !.etag = IdleReq.etag,
            !.error = OkRes]

\* return from the handler: dropping an armed InterruptedCleanup spawns the
\* cleanup task
Finish(r, res) ==
  [r EXCEPT !.pc = "done", !.result = res,
            !.failed_at = IF res = OkRes THEN "" ELSE r.pc,
            !.cleanup = IF @ = "armed" THEN "spawned" ELSE @,
            !.spawns = IF r.cleanup = "armed" THEN @ + 1 ELSE @,
            \* the locals of the handler are gone
            !.chunker = IdleReq.chunker, !.existing = None, !.version = IdleReq.version,
            !.first_block_hash = IdleReq.first_block_hash, !.cur = IdleReq.cur,
            !.next_offset = 0, !.md5hasher = HasherNew, !.sha256hasher = HasherNew,
            !.fut = NoFut, !.next_block = None, !.etag = IdleReq.etag,
            !.error = OkRes]

Wrote(r, tbl) == [r EXCEPT !.writes[tbl] = @ + 1]

LogWrite(p, task, tbl, uuid, tag) ==
  history \cup {[by |-> p, task |-> task, tbl |-> tbl, uuid |-> uuid, tag |-> tag]}

QuotasSet == quotas.max_objects.some \/ quotas.max_size.some
CounterReads == {[objects |-> o, bytes |-> b] : o \in {0, 1}, b \in {0, QuotaBytes}}
QuotaConfigs ==
  {NoQuotas, [max_objects |-> Some(1), max_size |-> Some(QuotaBytes)]}

\* the checksum headers a client may send with a body: content-md5 and
\* x-amz-content-sha256, each absent, right or wrong
ChecksumHeaders(stream) ==
  LET md5(bytes, quoted) == Some(HeaderValue(Base64Encode(Md5sum(bytes)), quoted))
      sha(bytes) == Some(Sha256sum(bytes))
      body == StreamBytes(stream)
  IN {<<None, None>>,
      <<md5(body, FALSE), None>>,
      <<md5(body, TRUE), sha(body)>>,
      <<md5(WrongBytes, FALSE), sha(body)>>,
      <<md5(body, FALSE), sha(WrongBytes)>>,
      <<md5(WrongBytes, TRUE), sha(WrongBytes)>>}

\* a chunk of n bytes 0, 1, 0, 1, ...
PatternBytes(n) == [i \in 1..n |-> (i - 1) % 2]

(* ---- save_stream ---- *)
\* handle_put: the request arrives; save_stream creates the chunker
StartPut(p, streams, sent, hdrs) ==
  /\ CanStart(p)
  /\ \E stream \in streams, headers \in hdrs :
       \E sums \in ChecksumHeaders(stream) \cap sent :
         req' = [req EXCEPT ![p] =
           [IdleReq EXCEPT !.op = "put", !.pc = "begin", !.body = stream,
                           !.headers = headers, !.content_md5 = sums[1],
                           !.content_sha256 = sums[2],
                           !.chunker = NewChunker(stream, block_size)]]
  /\ UNCHANGED <<block_size, quotas, faults, tableVars, history, chunkerVars, adminVars>>

\* a timestamp taken from the clock alone
VersionTimestampClockOnly(existing, now) == now

\* timestamp of the new version
VersionTimestamp(existing, now) ==
  IF existing.some /\ existing.val # {}
  THEN Max(MaxOf({v.timestamp : v \in existing.val}) + 1, now)
  ELSE now

\* read_and_put_blocks that leaves the first block out of the MD5
EnterBlocksSkipsHash(r, part_number, first_block) ==
  [r EXCEPT !.pc = "blocks",
            !.part_number = part_number,
            !.first_block_hash = Blake2sum(first_block),
            !.md5hasher = HasherNew,
            !.sha256hasher = HasherUpdate(HasherNew, first_block),
            !.next_offset = Len(first_block),
            !.cur = [block |-> first_block, hash |-> Blake2sum(first_block), offset |-> 0],
            !.fut = NewFut, !.next_block = None]

\* entry of read_and_put_blocks: both hashers take the first block and the
\* futures of the first block are created
EnterBlocks(r, part_number, first_block) ==
  [r EXCEPT !.pc = "blocks",
            !.part_number = part_number,
            !.first_block_hash = Blake2sum(first_block),
            !.md5hasher = HasherUpdate(HasherNew, first_block),
            !.sha256hasher = HasherUpdate(HasherNew, first_block),
            !.next_offset = Len(first_block),
            !.cur = [block |-> first_block, hash |-> Blake2sum(first_block), offset |-> 0],
            !.fut = NewFut, !.next_block = None]

\* a save_stream that installs the cleanup handle before the inline path
PutBeginArmsInline(p) ==
  /\ req[p].op = "put" /\ req[p].pc = "begin"
  /\ \E now \in Clock :
     LET r == req[p]
         n == ChunkerNext(r.chunker)
         first_block == n.block
         existing == ObjectGet(object_table)
         r1 == [r EXCEPT !.chunker = n.c, !.existing = existing,
                         !.uuid = GenUuid(p),
                         !.timestamp = VersionTimestamp(existing, now),
                         !.cur = [block |-> first_block, hash |-> Blake2sum(first_block),
                                  offset |-> 0]]
         sums == EnsureChecksumMatches(Md5sum(first_block), Sha256sum(first_block),
                                       r.content_md5, r.content_sha256)
     IN req' = [req EXCEPT ![p] =
          IF n.kind = "Err" THEN Finish([r EXCEPT !.chunker = n.c], StreamError)
          ELSE IF Len(first_block) < INLINE_THRESHOLD
          THEN IF sums # OkRes THEN Finish([r1 EXCEPT !.cleanup = "armed"], sums)
               ELSE [r1 EXCEPT !.pc = "inline_quotas", !.total_size = Len(first_block),
                               !.cleanup = "armed"]
          ELSE [r1 EXCEPT !.pc = "insert_uploading", !.cleanup = "armed"]]
  /\ UNCHANGED <<block_size, quotas, faults, tableVars, history, chunkerVars, adminVars>>

\* a save_stream that writes its version under the uuid of the newest
\* version it read from the row
PutBeginReusesUuid(p) ==
  /\ req[p].op = "put" /\ req[p].pc = "begin"
  /\ \E now \in Clock :
     LET r == req[p]
         n == ChunkerNext(r.chunker)
         first_block == n.block
         existing == ObjectGet(object_table)
         newest == CHOOSE v \in object_table : \A w \in object_table :
                     <<w.timestamp, w.uuid>> = <<v.timestamp, v.uuid>>
                       \/ w.timestamp < v.timestamp
                       \/ (w.timestamp = v.timestamp /\ w.uuid < v.uuid)
         r1 == [r EXCEPT !.chunker = n.c, !.existing = existing,
                         !.uuid = IF object_table = {} THEN GenUuid(p) ELSE newest.uuid,
                         !.timestamp = VersionTimestamp(existing, now),
                         !.cur = [block |-> first_block, hash |-> Blake2sum(first_block),
                                  offset |-> 0]]
         sums == EnsureChecksumMatches(Md5sum(first_block), Sha256sum(first_block),
                                       r.content_md5, r.content_sha256)
     IN req' = [req EXCEPT ![p] =
          IF n.kind = "Err" THEN Finish([r EXCEPT !.chunker = n.c], StreamError)
          ELSE IF Len(first_block) < INLINE_THRESHOLD
          THEN IF sums # OkRes THEN Finish(r1, sums)
               ELSE [r1 EXCEPT !.pc = "inline_quotas", !.total_size = Len(first_block)]
          ELSE [r1 EXCEPT !.pc = "insert_uploading", !.cleanup = "armed"]]
  /\ UNCHANGED <<block_size, quotas, faults, tableVars, history, chunkerVars, adminVars>>

\* first block and existing object; then the inline path runs up to its
\* quota check, the streaming path installs the cleanup handle
PutBegin(p) ==
  /\ req[p].op = "put" /\ req[p].pc = "begin"
  /\ \E now \in Clock :
     LET r == req[p]
         n == ChunkerNext(r.chunker)
         first_block == n.block
         existing == ObjectGet(object_table)
         r1 == [r EXCEPT !.chunker = n.c, !.existing = existing,
                         !.uuid = GenUuid(p),
                         !.timestamp = VersionTimestamp(existing, now),
                         !.cur = [block |-> first_block, hash |-> Blake2sum(first_block),
                                  offset |-> 0]]
         sums == EnsureChecksumMatches(Md5sum(first_block), Sha256sum(first_block),
                                       r.content_md5, r.content_sha256)
     IN req' = [req EXCEPT ![p] =
          IF n.kind = "Err" THEN Finish([r EXCEPT !.chunker = n.c], StreamError)
          ELSE IF Len(first_block) < INLINE_THRESHOLD
          THEN IF sums # OkRes THEN Finish(r1, sums)
               ELSE [r1 EXCEPT !.pc = "inline_quotas", !.total_size = Len(first_block)]
          ELSE [r1 EXCEPT !.pc = "insert_uploading", !.cleanup = "armed"]]
  /\ UNCHANGED <<block_size, quotas, faults, tableVars, history, chunkerVars, adminVars>>

\* inline path: check_quotas
PutInlineQuotas(p) ==
  /\ req[p].op = "put" /\ req[p].pc = "inline_quotas"
  /\ \E counters \in CounterReads :
     LET r == req[p]
         q == CheckQuotas(quotas, counters, r.total_size, r.existing)
     IN req' = [req EXCEPT ![p] =
          IF q = OkRes THEN [r EXCEPT !.pc = "inline_insert"] ELSE Finish(r, q)]
  /\ UNCHANGED <<block_size, quotas, faults, tableVars, history, chunkerVars, adminVars>>

\* an inline path that also writes a Version row
PutInlineInsertAlsoVersion(p) ==
  /\ req[p].op = "put" /\ req[p].pc = "inline_insert"
  /\ LET r == req[p]
         etag == HexEncode(Md5sum(r.cur.block))
         v == ObjectVersion(r.uuid, r.timestamp,
                CompleteInline(Meta(r.headers, r.total_size, etag), r.cur.block))
     IN /\ object_table' = ObjectInsert(object_table, v)
        /\ req' = [req EXCEPT ![p] = Finish(Wrote(r, "object"), OkRes)]
        /\ history' = LogWrite(p, "request", "object", r.uuid, "Complete")
  /\ version_table' = VersionInsert(version_table, NewVersion(req[p].uuid))
  /\ UNCHANGED <<block_size, quotas, faults, block_ref_table, block_store, chunkerVars, adminVars>>

\* inline path: the one insert of the object row, Complete(Inline)
PutInlineInsert(p) ==
  /\ req[p].op = "put" /\ req[p].pc = "inline_insert"
  /\ LET r == req[p]
         etag == HexEncode(Md5sum(r.cur.block))
         v == ObjectVersion(r.uuid, r.timestamp,
                CompleteInline(Meta(r.headers, r.total_size, etag), r.cur.block))
     IN /\ object_table' = ObjectInsert(object_table, v)
        /\ req' = [req EXCEPT ![p] = Finish(Wrote(r, "object"), OkRes)]
        /\ history' = LogWrite(p, "request", "object", r.uuid, "Complete")
  /\ UNCHANGED <<block_size, quotas, faults, version_table, block_ref_table, block_store,
                 chunkerVars, adminVars>>

\* a streaming path that goes from the Uploading row straight to the blocks
PutInsertUploadingThenBlocks(p) ==
  /\ req[p].op = "put" /\ req[p].pc = "insert_uploading"
  /\ LET r == req[p]
         v == ObjectVersion(r.uuid, r.timestamp, Uploading(r.headers))
     IN /\ object_table' = ObjectInsert(object_table, v)
        /\ req' = [req EXCEPT ![p] =
             EnterBlocks([Wrote(r, "object") EXCEPT !.version = NewVersion(r.uuid)],
                         1, r.cur.block)]
        /\ history' = LogWrite(p, "request", "object", r.uuid, "Uploading")
  /\ UNCHANGED <<block_size, quotas, faults, version_table, block_ref_table, block_store,
                 chunkerVars, adminVars>>

\* streaming path: the object row in state Uploading
PutInsertUploading(p) ==
  /\ req[p].op = "put" /\ req[p].pc = "insert_uploading"
  /\ LET r == req[p]
         v == ObjectVersion(r.uuid, r.timestamp, Uploading(r.headers))
     IN /\ object_table' = ObjectInsert(object_table, v)
        /\ req' = [req EXCEPT ![p] = [Wrote(r, "object") EXCEPT !.pc = "insert_version"]]
        /\ history' = LogWrite(p, "request", "object", r.uuid, "Uploading")
  /\ UNCHANGED <<block_size, quotas, faults, version_table, block_ref_table, block_store,
                 chunkerVars, adminVars>>

\* streaming path: the empty Version row, then into read_and_put_blocks
PutInsertVersion(p) ==
  /\ req[p].op = "put" /\ req[p].pc = "insert_version"
  /\ LET r == req[p]
         version == NewVersion(r.uuid)
     IN /\ version_table' = VersionInsert(version_table, version)
        /\ req' = [req EXCEPT ![p] =
             EnterBlocks([Wrote(r, "version") EXCEPT !.version = version], 1, r.cur.block)]
        /\ history' = LogWrite(p, "request", "version", r.uuid, "new")
  /\ UNCHANGED <<block_size, quotas, faults, object_table, block_ref_table, block_store,
                 chunkerVars, adminVars>>

(* ---- read_and_put_blocks: one iteration joins the upload of the current ---- *)
(* ---- block, its metadata write and the pull of the next block          ---- *)
InBlocks(p) == req[p].pc = "blocks"

\* block_manager.rpc_put_block(hash, block)
RpcPutBlock(p) ==
  /\ InBlocks(p) /\ req[p].fut.data = "pending"
  /\ block_store' = block_store \cup {req[p].cur.hash}
  /\ req' = [req EXCEPT ![p] = [Wrote(req[p], "block") EXCEPT !.fut.data = "done"]]
  /\ history' = LogWrite(p, "request", "block", req[p].version.uuid, "data")
  /\ UNCHANGED <<block_size, quotas, faults, object_table, version_table, block_ref_table,
                 chunkerVars, adminVars>>

\* put_block_meta: a clone of the handler's Version with the one block entry
BlockMetaVersion(r) ==
  [r.version EXCEPT !.blocks =
     MapPut(@, VersionBlockKey(r.part_number, r.cur.offset),
            VersionBlock(r.cur.hash, Len(r.cur.block)))]

\* put_block_meta: version_table.insert
InsertBlockVersion(p) ==
  /\ InBlocks(p) /\ req[p].fut.version = "pending"
  /\ version_table' = VersionInsert(version_table, BlockMetaVersion(req[p]))
  /\ req' = [req EXCEPT ![p] = [Wrote(req[p], "version") EXCEPT !.fut.version = "done"]]
  /\ history' = LogWrite(p, "request", "version", req[p].version.uuid, "block")
  /\ UNCHANGED <<block_size, quotas, faults, object_table, block_ref_table, block_store,
                 chunkerVars, adminVars>>

\* put_block_meta: block_ref_table.insert
InsertBlockRef(p) ==
  /\ InBlocks(p) /\ req[p].fut.block_ref = "pending"
  /\ block_ref_table' = block_ref_table \cup {BlockRef(req[p].cur.hash, req[p].version.uuid)}
  /\ req' = [req EXCEPT ![p] = [Wrote(req[p], "block_ref") EXCEPT !.fut.block_ref = "done"]]
  /\ history' = LogWrite(p, "request", "block_ref", req[p].version.uuid, "ref")
  /\ UNCHANGED <<block_size, quotas, faults, object_table, version_table, block_store,
                 chunkerVars, adminVars>>

\* a pull that does not complete when the chunker returns None
PullNextBlockWaitsAtEnd(p) ==
  /\ InBlocks(p) /\ req[p].fut.next = "pending"
  /\ LET r == req[p]
         n == ChunkerNext(r.chunker)
     IN req' = [req EXCEPT ![p] =
          IF n.kind = "Err" THEN Finish([r EXCEPT !.chunker = n.c], StreamError)
          ELSE IF n.kind = "None" THEN [r EXCEPT !.chunker = n.c]
          ELSE [r EXCEPT !.chunker = n.c, !.fut.next = "done",
                         !.next_block = Some(n.block)]]
  /\ UNCHANGED <<block_size, quotas, faults, tableVars, history, chunkerVars, adminVars>>

\* chunker.next() of the iteration; a source error ends the request
PullNextBlock(p) ==
  /\ InBlocks(p) /\ req[p].fut.next = "pending"
  /\ LET r == req[p]
         n == ChunkerNext(r.chunker)
     IN req' = [req EXCEPT ![p] =
          IF n.kind = "Err" THEN Finish([r EXCEPT !.chunker = n.c], StreamError)
          ELSE [r EXCEPT !.chunker = n.c, !.fut.next = "done",
                         !.next_block = IF n.kind = "Some" THEN Some(n.block) ELSE None]]
  /\ UNCHANGED <<block_size, quotas, faults, tableVars, history, chunkerVars, adminVars>>

\* a streaming path that skips the checksum validation
AfterBlocksNoChecksum(r) ==
  LET r1 == [r EXCEPT !.total_size = r.next_offset, !.fut = NoFut]
      sums == EnsureChecksumMatches(Md5sum(r.md5hasher), Sha256sum(r.sha256hasher),
                                    r.content_md5, r.content_sha256)
  IN IF FALSE THEN Finish(r1, sums)
     ELSE IF r.op = "put" THEN [r1 EXCEPT !.pc = "quotas"]
     ELSE [r1 EXCEPT !.pc = "insert_etag",
                     !.version.parts_etags =
                        MapPut(@, r.part_number, HexEncode(Md5sum(r.md5hasher)))]

\* after the loop: checksums, then the caller's next step
AfterBlocks(r) ==
  LET r1 == [r EXCEPT !.total_size = r.next_offset, !.fut = NoFut]
      sums == EnsureChecksumMatches(Md5sum(r.md5hasher), Sha256sum(r.sha256hasher),
                                    r.content_md5, r.content_sha256)
  IN IF sums # OkRes THEN Finish(r1, sums)
     ELSE IF r.op = "put" THEN [r1 EXCEPT !.pc = "quotas"]
     ELSE [r1 EXCEPT !.pc = "insert_etag",
                     !.version.parts_etags =
                        MapPut(@, r.part_number, HexEncode(Md5sum(r.md5hasher)))]

\* a loop that starts the next block when the metadata of the current one
\* is written, without waiting for the upload of its data
JoinBlockMetaOnly(p) ==
  /\ InBlocks(p)
  /\ \A f \in {"version", "block_ref", "next"} : req[p].fut[f] = "done"
  /\ LET r == req[p]
         block == r.next_block.val
     IN req' = [req EXCEPT ![p] =
          IF r.next_block.some
          THEN [r EXCEPT !.md5hasher = HasherUpdate(@, block),
                         !.sha256hasher = HasherUpdate(@, block),
                         !.cur = [block |-> block, hash |-> Blake2sum(block),
                                  offset |-> r.next_offset],
                         !.next_offset = @ + Len(block),
                         !.fut = NewFut, !.next_block = None]
          ELSE AfterBlocks(r)]
  /\ UNCHANGED <<block_size, quotas, faults, tableVars, history, chunkerVars, adminVars>>

\* a loop that starts the next block when the data of the current one is
\* uploaded, without waiting for its metadata
JoinBlockDataOnly(p) ==
  /\ InBlocks(p)
  /\ req[p].fut.data = "done" /\ req[p].fut.next = "done"
  /\ LET r == req[p]
         block == r.next_block.val
     IN req' = [req EXCEPT ![p] =
          IF r.next_block.some
          THEN [r EXCEPT !.md5hasher = HasherUpdate(@, block),
                         !.sha256hasher = HasherUpdate(@, block),
                         !.cur = [block |-> block, hash |-> Blake2sum(block),
                                  offset |-> r.next_offset],
                         !.next_offset = @ + Len(block),
                         !.fut = NewFut, !.next_block = None]
          ELSE AfterBlocks(r)]
  /\ UNCHANGED <<block_size, quotas, faults, tableVars, history, chunkerVars, adminVars>>

\* the join completed without error: next iteration, or leave the loop
JoinBlock(p) ==
  /\ InBlocks(p)
  /\ \A f \in DOMAIN req[p].fut : req[p].fut[f] = "done"
  /\ LET r == req[p]
         block == r.next_block.val
     IN req' = [req EXCEPT ![p] =
          IF r.next_block.some
          THEN [r EXCEPT !.md5hasher = HasherUpdate(@, block),
                         !.sha256hasher = HasherUpdate(@, block),
                         !.cur = [block |-> block, hash |-> Blake2sum(block),
                                  offset |-> r.next_offset],
                         !.next_offset = @ + Len(block),
                         !.fut = NewFut, !.next_block = None]
          ELSE AfterBlocks(r)]
  /\ UNCHANGED <<block_size, quotas, faults, tableVars, history, chunkerVars, adminVars>>

\* check_quotas of save_stream, on the inline (see PutInlineQuotas) and here
\* on the streaming path, against the total size
PutQuotas(p) ==
  /\ req[p].op = "put" /\ req[p].pc = "quotas"
  /\ \E counters \in CounterReads :
     LET r == req[p]
         q == CheckQuotas(quotas, counters, r.total_size, r.existing)
     IN req' = [req EXCEPT ![p] =
          IF q = OkRes THEN [r EXCEPT !.pc = "insert_complete"] ELSE Finish(r, q)]
  /\ UNCHANGED <<block_size, quotas, faults, tableVars, history, chunkerVars, adminVars>>

\* a final insert after which the cleanup handle is not cancelled
PutInsertCompleteKeepsArmed(p) ==
  /\ req[p].op = "put" /\ req[p].pc = "insert_complete"
  /\ LET r == req[p]
         etag == HexEncode(Md5sum(r.md5hasher))
         v == ObjectVersion(r.uuid, r.timestamp,
                CompleteFirstBlock(Meta(r.headers, r.total_size, etag), r.first_block_hash))
     IN /\ object_table' = ObjectInsert(object_table, v)
        /\ req' = [req EXCEPT ![p] =
             Finish(Wrote(r, "object"), OkRes)]
        /\ history' = LogWrite(p, "request", "object", r.uuid, "Complete")
  /\ UNCHANGED <<block_size, quotas, faults, version_table, block_ref_table, block_store,
                 chunkerVars, adminVars>>

\* the object row in state Complete(FirstBlock); the cleanup is cancelled
PutInsertComplete(p) ==
  /\ req[p].op = "put" /\ req[p].pc = "insert_complete"
  /\ LET r == req[p]
         etag == HexEncode(Md5sum(r.md5hasher))
         v == ObjectVersion(r.uuid, r.timestamp,
                CompleteFirstBlock(Meta(r.headers, r.total_size, etag), r.first_block_hash))
     IN /\ object_table' = ObjectInsert(object_table, v)
        /\ req' = [req EXCEPT ![p] =
             Finish([Wrote(r, "object") EXCEPT !.cleanup = "cancelled"], OkRes)]
        /\ history' = LogWrite(p, "request", "object", r.uuid, "Complete")
  /\ UNCHANGED <<block_size, quotas, faults, version_table, block_ref_table, block_store,
                 chunkerVars, adminVars>>

\* a cleanup that also marks the BlockRef rows of the version deleted
CleanupInsertDeletesRefs(p) ==
  /\ req[p].cleanup = "spawned"
  /\ object_table' = ObjectInsert(object_table,
                        ObjectVersion(req[p].uuid, req[p].timestamp, Aborted))
  /\ block_ref_table' = {IF b.version = req[p].uuid THEN [b EXCEPT !.deleted = TRUE] ELSE b :
                           b \in block_ref_table}
  /\ req' = [req EXCEPT ![p].cleanup = "done"]
  /\ history' = LogWrite(p, "cleanup", "object", req[p].uuid, "Aborted")
  /\ UNCHANGED <<block_size, quotas, faults, version_table, block_store, chunkerVars, adminVars>>

(* ---- InterruptedCleanup ---- *)
\* the spawned task inserts the version in state Aborted
CleanupInsert(p) ==
  /\ req[p].cleanup = "spawned"
  /\ object_table' = ObjectInsert(object_table,
                        ObjectVersion(req[p].uuid, req[p].timestamp, Aborted))
  /\ req' = [req EXCEPT ![p].cleanup = "done"]
  /\ history' = LogWrite(p, "cleanup", "object", req[p].uuid, "Aborted")
  /\ UNCHANGED <<block_size, quotas, faults, version_table, block_ref_table, block_store,
                 chunkerVars, adminVars>>

\* the insert of the spawned task fails: a warning is logged
CleanupInsertFails(p) ==
  /\ req[p].cleanup = "spawned" /\ faults > 0
  /\ req' = [req EXCEPT ![p].cleanup = "failed"]
  /\ faults' = faults - 1
  /\ UNCHANGED <<block_size, quotas, tableVars, history, chunkerVars, adminVars>>

(* ---- failures of the environment ---- *)
\* the positions at which the handler awaits a table or block-store call
AwaitsRpc(r) ==
  \/ r.pc \in {"begin", "inline_insert", "insert_uploading", "insert_version",
               "insert_complete", "create_object", "create_version", "part_begin",
               "insert_etag", "complete_read", "complete_abort", "complete_insert",
               "abort_read", "abort_insert"}
  \/ r.pc \in {"inline_quotas", "quotas"} /\ QuotasSet
  \/ r.pc = "blocks" /\ \E f \in {"data", "version", "block_ref"} : r.fut[f] = "pending"

\* the awaited call returns an error, which the handler returns
RpcFails(p) ==
  /\ AwaitsRpc(req[p]) /\ faults > 0
  /\ req' = [req EXCEPT ![p] = Finish(req[p], InternalError)]
  /\ faults' = faults - 1
  /\ UNCHANGED <<block_size, quotas, tableVars, history, chunkerVars, adminVars>>

\* the task of the request is dropped at an await (the client went away)
DropTask(p) ==
  /\ req[p].pc \notin {"idle", "done"} /\ faults > 0
  /\ req' = [req EXCEPT ![p] = Finish(req[p], Dropped)]
  /\ faults' = faults - 1
  /\ UNCHANGED <<block_size, quotas, tableVars, history, chunkerVars, adminVars>>

(* ---- bucket administration ---- *)
MaxAdminReq == 2
AdminReqs == 1..MaxAdminReq

IdleAdminReq ==
  [pc |-> "idle", result |-> Pending, global_alias |-> None, local_alias |-> None,
   alias_found |-> FALSE, bucket |-> 0, writes |-> 0]

\* no bucket, alias or key yet, no admin request and no response
IdleAdmin ==
  /\ bucket_table = {} /\ bucket_alias_table = EmptyMap /\ key_table = EmptyMap
  /\ admin = [p \in AdminReqs |-> IdleAdminReq]
  /\ responses = <<>>

(* ---- is_valid_bucket_name: names are sequences of characters ---- *)
MinNameLen == 3
MaxNameLen == 63

Digits == <<"0", "1", "2", "3", "4", "5", "6", "7", "8", "9">>
LowerLetters ==
  {"a", "b", "c", "d", "e", "f", "g", "h", "i", "j", "k", "l", "m", "n", "o", "p", "q",
   "r", "s", "t", "u", "v", "w", "x", "y", "z"}

IsDigit(ch) == \E k \in DOMAIN Digits : Digits[k] = ch
DigitValue(ch) == (CHOOSE k \in DOMAIN Digits : Digits[k] = ch) - 1

\* matches!(c, '.' | '-' | 'a'..='z' | '0'..='9')
IsNameChar(ch) == ch \in {".", "-"} \/ ch \in LowerLetters \/ IsDigit(ch)

StartsWith(n, prefix) ==
  Len(n) >= Len(prefix) /\ SubSeq(n, 1, Len(prefix)) = prefix
EndsWith(n, suffix) ==
  Len(n) >= Len(suffix) /\ SubSeq(n, Len(n) - Len(suffix) + 1, Len(n)) = suffix

\* the value of a decimal numeral
RECURSIVE DecimalValue(_)
DecimalValue(str) ==
  IF str = <<>> THEN 0
  ELSE 10 * DecimalValue(SubSeq(str, 1, Len(str) - 1)) + DigitValue(str[Len(str)])

\* one octet of a dotted address: one to three digits, no leading zero, at
\* most 255
IsOctet(str) ==
  /\ Len(str) \in 1..3
  /\ \A i \in DOMAIN str : IsDigit(str[i])
  /\ Len(str) > 1 => str[1] # "0"
  /\ DecimalValue(str) <= 255

\* n.parse::<std::net::IpAddr>().is_ok() for a name made of the characters
\* of a bucket name: no such name holds the ':' of an IPv6 address, so this
\* is the parse of an IPv4 address, four octets separated by dots
ParsesAsIpAddr(n) ==
  LET dots == {i \in DOMAIN n : n[i] = "."}
      bounds == dots \cup {0, Len(n) + 1}
  IN /\ Cardinality(dots) = 3
     /\ \A i \in bounds : i <= Len(n) =>
          LET j == CHOOSE k \in bounds : k > i /\ \A m \in bounds : m > i => k <= m
          IN IsOctet(SubSeq(n, i + 1, j - 1))

\* a check that lets names of any length pass
IsValidBucketNameAnyLength(n) ==
  /\ \A i \in DOMAIN n : IsNameChar(n[i])
  /\ ~StartsWith(n, <<"-">>) /\ ~StartsWith(n, <<".">>)
  /\ ~EndsWith(n, <<"-">>) /\ ~EndsWith(n, <<".">>)
  /\ ~ParsesAsIpAddr(n)
  /\ ~StartsWith(n, <<"x", "n", "-", "-">>)
  /\ ~EndsWith(n, <<"-", "s", "3", "a", "l", "i", "a", "s">>)

IsValidBucketName(n) ==
  /\ Len(n) >= MinNameLen /\ Len(n) <= MaxNameLen
  /\ \A i \in DOMAIN n : IsNameChar(n[i])
  /\ ~StartsWith(n, <<"-">>) /\ ~StartsWith(n, <<".">>)
  /\ ~EndsWith(n, <<"-">>) /\ ~EndsWith(n, <<".">>)
  /\ ~ParsesAsIpAddr(n)
  /\ ~StartsWith(n, <<"x", "n", "-", "-">>)
  /\ ~EndsWith(n, <<"-", "s", "3", "a", "l", "i", "a", "s">>)

(* ---- handle_create_bucket ---- *)
\* crdt::Deletable: present(v) or deleted
Present(v) == [deleted |-> FALSE, val |-> v]
Deleted == [deleted |-> TRUE]

\* BucketAlias::new: None for a name that is not valid
BucketAliasNew(name, bucket_id) ==
  IF ~IsValidBucketName(name) THEN None ELSE Some(Present(bucket_id))

\* the state of an access key: its local aliases and the buckets it has
\* all permissions on
KeyState(local_aliases, buckets) ==
  Present([local_aliases |-> local_aliases, permissions |-> buckets])

InvalidBucketName == ErrRes("BadRequest", "Invalid bucket name")
BucketAlreadyExists == ErrRes("BucketAlreadyExists", "")
NoSuchKey == ErrRes("NoSuchKey", "")
LocalAliasExists == ErrRes("BadRequest", "Local alias already exists")

LocalAlias(access_key_id, alias, all_permissions) ==
  [access_key_id |-> access_key_id, alias |-> alias, all_permissions |-> all_permissions]

\* Bucket::new(): an id no other bucket has
GenBucketId(p) == p

AdminFinish(r, res) == [r EXCEPT !.pc = "done", !.result = res]

\* the request arrives with its parsed body
StartCreateBucket(p, globals, locals) ==
  /\ admin[p].pc = "idle"
  /\ \A q \in AdminReqs : q < p => admin[q].pc # "idle"
  /\ \E ga \in globals, la \in locals :
       admin' = [admin EXCEPT ![p] =
         [IdleAdminReq EXCEPT !.pc = "check_global", !.global_alias = ga,
                              !.local_alias = la]]
  /\ UNCHANGED <<coreVars, chunkerVars, bucket_table, bucket_alias_table, key_table,
                 responses>>

\* the global alias: its name is validated, then the alias is read and must
\* not be present
CreateBucketCheckGlobal(p) ==
  /\ admin[p].pc = "check_global"
  /\ LET r == admin[p]
         ga == r.global_alias.val
         found == /\ ga \in DOMAIN bucket_alias_table
                  /\ ~bucket_alias_table[ga].deleted
     IN admin' = [admin EXCEPT ![p] =
          IF ~r.global_alias.some THEN [r EXCEPT !.pc = "check_local"]
          ELSE IF ~IsValidBucketName(ga) THEN AdminFinish(r, InvalidBucketName)
          ELSE IF found THEN AdminFinish([r EXCEPT !.alias_found = TRUE], BucketAlreadyExists)
          ELSE [r EXCEPT !.pc = "check_local"]]
  /\ UNCHANGED <<coreVars, chunkerVars, bucket_table, bucket_alias_table, key_table,
                 responses>>

\* the local alias: its name is validated, then the key is read; the key
\* must exist and must not hold the alias, deleted or not
CreateBucketCheckLocal(p) ==
  /\ admin[p].pc = "check_local"
  /\ LET r == admin[p]
         la == r.local_alias.val
         key == IF la.access_key_id \in DOMAIN key_table
                THEN Some(key_table[la.access_key_id]) ELSE None
     IN admin' = [admin EXCEPT ![p] =
          IF ~r.local_alias.some THEN [r EXCEPT !.pc = "insert_bucket"]
          ELSE IF ~IsValidBucketName(la.alias) THEN AdminFinish(r, InvalidBucketName)
          ELSE IF ~key.some \/ key.val.deleted THEN AdminFinish(r, NoSuchKey)
          ELSE IF la.alias \in DOMAIN key.val.val.local_aliases
          THEN AdminFinish(r, LocalAliasExists)
          ELSE [r EXCEPT !.pc = "insert_bucket"]]
  /\ UNCHANGED <<coreVars, chunkerVars, bucket_table, bucket_alias_table, key_table,
                 responses>>

\* bucket_table.insert(&Bucket::new())
CreateBucketInsert(p) ==
  /\ admin[p].pc = "insert_bucket"
  /\ bucket_table' = bucket_table \cup {GenBucketId(p)}
  /\ admin' = [admin EXCEPT ![p] =
       [admin[p] EXCEPT !.pc = "set_global", !.bucket = GenBucketId(p), !.writes = @ + 1]]
  /\ UNCHANGED <<coreVars, chunkerVars, bucket_alias_table, key_table, responses>>

\* set_global_bucket_alias: the alias row of the name points to the bucket
CreateBucketSetGlobal(p) ==
  /\ admin[p].pc = "set_global"
  /\ LET r == admin[p]
         alias == BucketAliasNew(r.global_alias.val, r.bucket)
     IN IF ~r.global_alias.some
        THEN /\ admin' = [admin EXCEPT ![p].pc = "set_local"]
             /\ UNCHANGED bucket_alias_table
        ELSE IF ~alias.some
        THEN /\ admin' = [admin EXCEPT ![p] = AdminFinish(r, InvalidBucketName)]
             /\ UNCHANGED bucket_alias_table
        ELSE /\ bucket_alias_table' = MapPut(bucket_alias_table, r.global_alias.val, alias.val)
             /\ admin' = [admin EXCEPT ![p] = [r EXCEPT !.pc = "set_local", !.writes = @ + 1]]
  /\ UNCHANGED <<coreVars, chunkerVars, bucket_table, key_table, responses>>

\* set_local_bucket_alias: the key gets the alias for the bucket
CreateBucketSetLocal(p) ==
  /\ admin[p].pc = "set_local"
  /\ LET r == admin[p]
         la == r.local_alias.val
         key == key_table[la.access_key_id]
     IN IF ~r.local_alias.some
        THEN /\ admin' = [admin EXCEPT ![p].pc = "info"]
             /\ UNCHANGED key_table
        ELSE /\ key_table' = [key_table EXCEPT ![la.access_key_id].val.local_aliases =
                                MapPut(@, la.alias, Present(r.bucket))]
             /\ admin' = [admin EXCEPT ![p] =
                  [r EXCEPT !.pc = IF la.all_permissions THEN "set_permissions" ELSE "info",
                            !.writes = @ + 1]]
  /\ UNCHANGED <<coreVars, chunkerVars, bucket_table, bucket_alias_table, responses>>

\* set_bucket_key_permissions with BucketKeyPerm::ALL_PERMISSIONS
CreateBucketSetPermissions(p) ==
  /\ admin[p].pc = "set_permissions"
  /\ LET r == admin[p]
         la == r.local_alias.val
     IN /\ key_table' = [key_table EXCEPT ![la.access_key_id].val.permissions =
                           @ \cup {r.bucket}]
        /\ admin' = [admin EXCEPT ![p] = [r EXCEPT !.pc = "info", !.writes = @ + 1]]
  /\ UNCHANGED <<coreVars, chunkerVars, bucket_table, bucket_alias_table, responses>>

\* the bucket is read back and its description returned
CreateBucketInfo(p) ==
  /\ admin[p].pc = "info"
  /\ admin' = [admin EXCEPT ![p] =
       AdminFinish(admin[p],
                   IF admin[p].bucket \in bucket_table THEN OkRes ELSE InternalError)]
  /\ UNCHANGED <<coreVars, chunkerVars, bucket_table, bucket_alias_table, key_table,
                 responses>>

\* the positions at which the handler awaits a table call
AdminAwaits(r) ==
  \/ r.pc = "check_global" /\ r.global_alias.some /\ IsValidBucketName(r.global_alias.val)
  \/ r.pc = "check_local" /\ r.local_alias.some /\ IsValidBucketName(r.local_alias.val.alias)
  \/ r.pc = "set_global" /\ r.global_alias.some
  \/ r.pc = "set_local" /\ r.local_alias.some
  \/ r.pc \in {"insert_bucket", "set_permissions", "info"}

\* the awaited call returns an error, which the handler returns
AdminRpcFails(p) ==
  /\ AdminAwaits(admin[p]) /\ faults > 0
  /\ admin' = [admin EXCEPT ![p] = AdminFinish(admin[p], InternalError)]
  /\ faults' = faults - 1
  /\ UNCHANGED <<block_size, quotas, tableVars, req, history, chunkerVars, bucket_table,
                 bucket_alias_table, key_table, responses>>

\* a name of n letters
LongName(n) == [i \in 1..n |-> "a"]

\* names sent as global alias: valid ones, and ones that break one rule each
SentNames ==
  {<<"a", "b", "c">>, <<"n", "e", "w">>, <<"a", ".", "b", "-", "c">>, LongName(MaxNameLen),
   <<"1", ".", "2", ".", "3">>, <<"1", ".", "2", ".", "3", ".", "2", "5", "6">>,
   <<"x", "n", "-", "a">>,
   <<"a", "b">>, <<>>, LongName(MaxNameLen + 1),
   <<"a", "B", "c">>, <<"a", "_", "c">>,
   <<"-", "a", "b">>, <<"a", "b", ".">>,
   <<"1", ".", "2", ".", "3", ".", "4">>, <<"1", "0", ".", "0", ".", "0", ".", "2", "5", "5">>,
   <<"x", "n", "-", "-", "a">>,
   <<"a", "-", "s", "3", "a", "l", "i", "a", "s">>}

\* local aliases sent: for a key that exists, one that was deleted and one
\* that is unknown
AccessKeyIds == {"k1", "k2", "k0"}
SentLocalAliases ==
  {LocalAlias(k, n, perm) :
     k \in AccessKeyIds,
     n \in {<<"n", "e", "w">>, <<"l", "c", "l">>, <<"a", "b">>,
            <<"1", ".", "2", ".", "3", ".", "4">>},
     perm \in BOOLEAN}

\* a bucket with the global alias abc and the local alias lcl of key k1,
\* as an earlier request created it; the key k2 was deleted
StoredBucket ==
  /\ bucket_table = {0}
  /\ bucket_alias_table = MapPut(MapPut(EmptyMap, <<"a", "b", "c">>, Present(0)),
                                 <<"n", "e", "w">>, Deleted)
  /\ key_table = MapPut(MapPut(EmptyMap, "k1",
                               KeyState(MapPut(EmptyMap, <<"l", "c", "l">>, Present(0)), {})),
                        "k2", Deleted)

NoBucket ==
  /\ bucket_table = {} /\ bucket_alias_table = EmptyMap
  /\ key_table = MapPut(MapPut(EmptyMap, "k1", KeyState(EmptyMap, {})), "k2", Deleted)

(* ---- Error::http_status_code ---- *)
\* the variants of GarageError: RPC and the others
GarageErrors == {"RPC", "Message", "Timeout"}

ApiError(kind, inner) == [kind |-> kind, inner |-> inner]

\* the values of the Error of the api crate, with two messages for the
\* variants that carry a string
ApiErrors ==
  {ApiError("InternalError", g) : g \in GarageErrors}
    \cup {ApiError(k, "") :
            k \in {"Hyper", "HTTP", "NotFound", "InvalidUTF8Str", "InvalidUTF8String",
                   "InvalidBase64", "InvalidHeader", "InvalidRange"}}
    \cup {ApiError(k, m) : k \in {"Forbidden", "InvalidXML", "BadRequest"},
                           m \in {"", "Quota exceeded"}}

NOT_FOUND == 404
FORBIDDEN == 403
SERVICE_UNAVAILABLE == 503
INTERNAL_SERVER_ERROR == 500
BAD_REQUEST == 400

\* a match whose arm for every internal error comes first
HttpStatusCodeInternalFirst(e) ==
  IF e.kind = "NotFound" THEN NOT_FOUND
  ELSE IF e.kind = "Forbidden" THEN FORBIDDEN
  ELSE IF e.kind \in {"InternalError", "Hyper", "HTTP"} THEN INTERNAL_SERVER_ERROR
  ELSE IF e.kind = "InternalError" /\ e.inner = "RPC" THEN SERVICE_UNAVAILABLE
  ELSE BAD_REQUEST

\* the match of http_status_code, arm by arm
HttpStatusCode(e) ==
  IF e.kind = "NotFound" THEN NOT_FOUND
  ELSE IF e.kind = "Forbidden" THEN FORBIDDEN
  ELSE IF e.kind = "InternalError" /\ e.inner = "RPC" THEN SERVICE_UNAVAILABLE
  ELSE IF e.kind \in {"InternalError", "Hyper", "HTTP"} THEN INTERNAL_SERVER_ERROR
  ELSE BAD_REQUEST

MaxResponses == 2

\* a handler returned the error e: the response carries its status code
ErrorResponse ==
  /\ Len(responses) < MaxResponses
  /\ \E e \in ApiErrors :
       responses' = Append(responses, [error |-> e, status |-> HttpStatusCode(e)])
  /\ UNCHANGED <<coreVars, chunkerVars, bucket_table, bucket_alias_table, key_table, admin>>

(* ---- a single PUT on its own, over every body, split and block size ---- *)
IdleChunker ==
  /\ source = <<>> /\ chunker = NewChunker(<<>>, 0) /\ emitted = <<>>

EmptyTables ==
  /\ version_table = EmptyMap /\ block_ref_table = {} /\ block_store = {}
  /\ history = {}

\* a row left by an earlier, completed inline PUT
PriorVersion(ts, bytes) ==
  ObjectVersion(0, ts, CompleteInline(Meta("h1", Len(bytes), HexEncode(Md5sum(bytes))), bytes))

PutStreams ==
  SeqsUpTo({OkItem(PatternBytes(n)) : n \in 0..MaxPutChunkLen} \cup {ErrItem}, MaxPutChunks)

InitPut ==
  /\ IdleChunker /\ IdleAdmin /\ EmptyTables /\ faults = MaxFaults + 1
  /\ block_size \in 1..MaxBlockSize
  /\ quotas \in QuotaConfigs
  /\ object_table \in {{}} \cup {{PriorVersion(t, <<1>>)} : t \in {0, MaxClock}}
  /\ req = [p \in Reqs |-> IdleReq]

PutSteps(p) ==
  \/ PutBegin(p)
  \/ PutInlineQuotas(p)
  \/ PutInlineInsert(p)
  \/ PutInsertUploading(p)
  \/ PutInsertVersion(p)
  \/ PutQuotas(p)
  \/ PutInsertComplete(p)

BlockSteps(p) ==
  \/ RpcPutBlock(p)
  \/ InsertBlockVersion(p)
  \/ InsertBlockRef(p)
  \/ PullNextBlock(p)
  \/ JoinBlock(p)

EnvSteps(p) ==
  \/ CleanupInsert(p)
  \/ CleanupInsertFails(p)
  \/ RpcFails(p)
  \/ DropTask(p)

NextPut ==
  \/ StartPut(1, PutStreams, UNION {ChecksumHeaders(s) : s \in PutStreams}, HeaderVals)
  \/ PutSteps(1)
  \/ BlockSteps(1)
  \/ EnvSteps(1)

SpecPut == InitPut /\ [][NextPut]_vars

(* ---- concurrent PUTs of one key ---- *)
\* bodies of an inline PUT, of one block and of two blocks
ConcurrentPutStreams ==
  {<<OkItem(PatternBytes(n))>> : n \in {1, INLINE_THRESHOLD, INLINE_THRESHOLD + 1}}

InitConcurrentPuts ==
  /\ IdleChunker /\ IdleAdmin /\ EmptyTables /\ faults = MaxFaults
  /\ block_size = INLINE_THRESHOLD
  /\ quotas = NoQuotas
  /\ object_table \in {{}, {PriorVersion(1, <<1>>)}}
  /\ req = [p \in Reqs |-> IdleReq]

NextConcurrentPuts ==
  \E p \in Reqs :
    \/ StartPut(p, ConcurrentPutStreams, {<<None, None>>}, HeaderVals)
    \/ PutSteps(p)
    \/ BlockSteps(p)
    \/ CleanupInsert(p)
    \/ RpcFails(p)
    \/ DropTask(p)

SpecConcurrentPuts == InitConcurrentPuts /\ [][NextConcurrentPuts]_vars

(* ---- http_status_code on its own ---- *)
InitErrors ==
  /\ IdleChunker /\ IdleAdmin /\ EmptyTables /\ faults = 0
  /\ block_size = INLINE_THRESHOLD /\ quotas = NoQuotas /\ object_table = {}
  /\ req = [p \in Reqs |-> IdleReq]

NextErrors == ErrorResponse

SpecErrors == InitErrors /\ [][NextErrors]_vars

(* ---- handle_create_bucket on its own ---- *)
InitCreateBucket ==
  /\ IdleChunker /\ EmptyTables /\ faults = MaxFaults
  /\ block_size = INLINE_THRESHOLD /\ quotas = NoQuotas /\ object_table = {}
  /\ req = [p \in Reqs |-> IdleReq]
  /\ StoredBucket \/ NoBucket
  /\ admin = [p \in AdminReqs |-> IdleAdminReq]
  /\ responses = <<>>

\* the aliases of the requests after the first: the names new and ab
LaterGlobalAliases == {Some(<<"n", "e", "w">>), Some(<<"a", "b">>)}
LaterLocalAliases ==
  {None, Some(LocalAlias("k1", <<"n", "e", "w">>, FALSE)),
   Some(LocalAlias("k1", <<"a", "b">>, FALSE))}

NextCreateBucket ==
  \E p \in AdminReqs :
    \/ StartCreateBucket(p, IF p = 1 THEN {None} \cup {Some(n) : n \in SentNames}
                             ELSE LaterGlobalAliases,
                         IF p = 1 THEN {None} \cup {Some(la) : la \in SentLocalAliases}
                             ELSE LaterLocalAliases)
    \/ CreateBucketCheckGlobal(p)
    \/ CreateBucketCheckLocal(p)
    \/ CreateBucketInsert(p)
    \/ CreateBucketSetGlobal(p)
    \/ CreateBucketSetLocal(p)
    \/ CreateBucketSetPermissions(p)
    \/ CreateBucketInfo(p)
    \/ AdminRpcFails(p)

SpecCreateBucket == InitCreateBucket /\ [][NextCreateBucket]_vars

(* ---- multipart uploads ---- *)
MaxPart == 2

PartNumbers == 1..MaxPart

\* the part numbers a CompleteMultipartUpload may list: those of the
\* PutParts and one no PutPart uses
ListPartNumbers == 1..(MaxPart + 1)

\* the upload an earlier client started and left in progress
StoredUploadId == 0

\* a uuid no upload was ever given
UnknownUploadId == MaxReq + 1

(* ---- upload ids ---- *)
\* the number of bytes of a Uuid
UUID_LEN == 32

HexChars == <<"0", "1", "2", "3", "4", "5", "6", "7", "8", "9", "a", "b", "c", "d", "e", "f">>
UpperHexChars == <<"A", "B", "C", "D", "E", "F">>

IsHexChar(ch) ==
  \/ \E i \in DOMAIN HexChars : HexChars[i] = ch
  \/ \E i \in DOMAIN UpperHexChars : UpperHexChars[i] = ch

\* the value of a digit; hex::decode takes both cases
HexValue(ch) ==
  IF \E i \in DOMAIN HexChars : HexChars[i] = ch
  THEN (CHOOSE i \in DOMAIN HexChars : HexChars[i] = ch) - 1
  ELSE (CHOOSE i \in DOMAIN UpperHexChars : UpperHexChars[i] = ch) + 9

\* an encoding that writes a byte below 16 as one digit
RECURSIVE HexStringUnpadded(_)
HexStringUnpadded(bytes) ==
  IF bytes = <<>> THEN <<>>
  ELSE LET b == bytes[1]
       IN (IF b < 16 THEN <<HexChars[b + 1]>>
           ELSE <<HexChars[(b \div 16) + 1], HexChars[(b % 16) + 1]>>)
          \o HexStringUnpadded(Tail(bytes))

\* hex::encode: two lowercase digits per byte
HexString(bytes) ==
  [i \in 1..(2 * Len(bytes)) |->
     LET b == bytes[(i + 1) \div 2]
     IN HexChars[(IF i % 2 = 1 THEN b \div 16 ELSE b % 16) + 1]]

\* hex::decode: None for an odd length or a character that is no digit
HexDecode(str) ==
  IF Len(str) % 2 # 0 \/ \E i \in DOMAIN str : ~IsHexChar(str[i]) THEN None
  ELSE Some([i \in 1..(Len(str) \div 2) |->
               16 * HexValue(str[2 * i - 1]) + HexValue(str[2 * i])])

\* the bytes of a uuid and the uuid of its bytes; the uuids of the model are
\* below 65536 and take the last two bytes
UuidBytes(u) ==
  [i \in 1..UUID_LEN |-> IF i = UUID_LEN THEN u % 256
                         ELSE IF i = UUID_LEN - 1 THEN (u \div 256) % 256
                         ELSE 0]

RECURSIVE UuidFrom(_)
UuidFrom(bytes) ==
  IF bytes = <<>> THEN 0
  ELSE 256 * UuidFrom(SubSeq(bytes, 1, Len(bytes) - 1)) + bytes[Len(bytes)]

\* a decoder that takes the encodings of 16 bytes
DecodeUploadIdSixteenBytes(id) ==
  LET id_bin == HexDecode(id)
  IN IF ~id_bin.some THEN [res |-> ErrRes("NoSuchUpload", ""), uuid |-> 0]
     ELSE IF Len(id_bin.val) # 16 THEN [res |-> ErrRes("NoSuchUpload", ""), uuid |-> 0]
     ELSE [res |-> OkRes, uuid |-> UuidFrom(id_bin.val)]

\* decode_upload_id
DecodeUploadId(id) ==
  LET id_bin == HexDecode(id)
  IN IF ~id_bin.some THEN [res |-> ErrRes("NoSuchUpload", ""), uuid |-> 0]
     ELSE IF Len(id_bin.val) # UUID_LEN THEN [res |-> ErrRes("NoSuchUpload", ""), uuid |-> 0]
     ELSE [res |-> OkRes, uuid |-> UuidFrom(id_bin.val)]

\* the upload id a CreateMultipartUpload returns for its version
UploadIdOf(uuid) == HexString(UuidBytes(uuid))

\* strings that are no upload id: not hexadecimal, and too short
MalformedIds == {<<"n", "o">>, HexString(<<1>>)}

\* the uploads a client may name: the stored one, those a
\* CreateMultipartUpload returned, and one that was never created
KnownUploads ==
  {StoredUploadId, UnknownUploadId}
    \cup {req[q].uuid : q \in {x \in Reqs : /\ req[x].op = "create" /\ req[x].pc = "done"
                                            /\ req[x].result = OkRes}}

\* the upload ids a client may send
UploadIds == {UploadIdOf(u) : u \in KnownUploads} \cup MalformedIds

\* handle_create_multipart_upload: the request arrives
StartCreate(p, hdrs) ==
  /\ CanStart(p)
  /\ \E headers \in hdrs :
       req' = [req EXCEPT ![p] =
         [IdleReq EXCEPT !.op = "create", !.pc = "create_object", !.headers = headers,
                         !.uuid = GenUuid(p)]]
  /\ UNCHANGED <<block_size, quotas, faults, tableVars, history, chunkerVars, adminVars>>

\* the object row in state Uploading, with timestamp now_msec()
CreateInsertObject(p) ==
  /\ req[p].op = "create" /\ req[p].pc = "create_object"
  /\ \E now \in Clock :
     LET r == req[p]
         v == ObjectVersion(r.uuid, now, Uploading(r.headers))
     IN /\ object_table' = ObjectInsert(object_table, v)
        /\ req' = [req EXCEPT ![p] =
             [Wrote(r, "object") EXCEPT !.pc = "create_version", !.timestamp = now]]
        /\ history' = LogWrite(p, "request", "object", r.uuid, "Uploading")
  /\ UNCHANGED <<block_size, quotas, faults, version_table, block_ref_table, block_store,
                 chunkerVars, adminVars>>

\* the empty Version row; the upload id is returned
CreateInsertVersion(p) ==
  /\ req[p].op = "create" /\ req[p].pc = "create_version"
  /\ version_table' = VersionInsert(version_table, NewVersion(req[p].uuid))
  /\ req' = [req EXCEPT ![p] =
       Finish([Wrote(req[p], "version") EXCEPT !.upload_id = UploadIdOf(req[p].uuid)],
              OkRes)]
  /\ history' = LogWrite(p, "request", "version", req[p].uuid, "new")
  /\ UNCHANGED <<block_size, quotas, faults, object_table, block_ref_table, block_store,
                 chunkerVars, adminVars>>

\* a CompleteMultipartUpload or an AbortMultipartUpload of the upload has
\* succeeded: its write to the object row was made on the step it returned
Finalized(uuid) ==
  \E q \in Reqs : /\ req[q].op \in {"complete", "abort"} /\ req[q].pc = "done"
                  /\ req[q].result = OkRes /\ req[q].uuid = uuid

\* the upload id of the request is decoded first; after_final records
\* whether the request arrived after the upload was finalized
WithUploadId(r, upload_id, pc) ==
  LET d == DecodeUploadId(upload_id)
      r1 == [r EXCEPT !.upload_id = upload_id, !.pc = "decode_upload_id"]
  IN IF d.res # OkRes THEN Finish(r1, d.res)
     ELSE [r1 EXCEPT !.uuid = d.uuid, !.pc = pc, !.after_final = Finalized(d.uuid)]

\* handle_put_part: the request arrives
StartPutPart(p, streams, sent) ==
  /\ CanStart(p)
  /\ \E upload_id \in UploadIds, part_number \in PartNumbers, stream \in streams :
       \E sums \in ChecksumHeaders(stream) \cap sent :
         req' = [req EXCEPT ![p] =
           WithUploadId(
             [IdleReq EXCEPT !.op = "putpart", !.body = stream,
                             !.part_number = part_number,
                             !.content_md5 = sums[1], !.content_sha256 = sums[2],
                             !.chunker = NewChunker(stream, block_size)],
             upload_id, "part_begin")]
  /\ UNCHANGED <<block_size, quotas, faults, tableVars, history, chunkerVars, adminVars>>

HasUploading(object, uuid) ==
  \E v \in object.val : v.uuid = uuid /\ IsUploading(v)

\* a handler that does not look at the state of the version
PutPartBeginAnyState(p) ==
  /\ req[p].op = "putpart" /\ req[p].pc = "part_begin"
  /\ LET r == req[p]
         n == ChunkerNext(r.chunker)
         object == ObjectGet(object_table)
         version == VersionGet(version_table, r.uuid)
         r1 == [r EXCEPT !.chunker = n.c]
     IN req' = [req EXCEPT ![p] =
          IF n.kind = "Err" THEN Finish(r1, StreamError)
          ELSE IF n.kind = "None" THEN Finish(r1, ErrRes("BadRequest", "Empty body"))
          ELSE IF ~object.some THEN Finish(r1, ErrRes("BadRequest", "Object not found"))
          ELSE IF ~\E v \in object.val : v.uuid = r.uuid
          THEN Finish(r1, ErrRes("NoSuchUpload", ""))
          ELSE IF version.some /\ HasPartNumber(version.val, r.part_number)
          THEN Finish(r1, ErrRes("BadRequest", "Part number has already been uploaded"))
          ELSE EnterBlocks([r1 EXCEPT !.version = NewVersion(r.uuid)],
                           r.part_number, n.block)]
  /\ UNCHANGED <<block_size, quotas, faults, tableVars, history, chunkerVars, adminVars>>

\* a handler that does not look whether the part was already uploaded
PutPartBeginNoPartCheck(p) ==
  /\ req[p].op = "putpart" /\ req[p].pc = "part_begin"
  /\ LET r == req[p]
         n == ChunkerNext(r.chunker)
         object == ObjectGet(object_table)
         version == VersionGet(version_table, r.uuid)
         r1 == [r EXCEPT !.chunker = n.c]
     IN req' = [req EXCEPT ![p] =
          IF n.kind = "Err" THEN Finish(r1, StreamError)
          ELSE IF n.kind = "None" THEN Finish(r1, ErrRes("BadRequest", "Empty body"))
          ELSE IF ~object.some THEN Finish(r1, ErrRes("BadRequest", "Object not found"))
          ELSE IF ~HasUploading(object, r.uuid) THEN Finish(r1, ErrRes("NoSuchUpload", ""))
          ELSE EnterBlocks([r1 EXCEPT !.version = NewVersion(r.uuid)],
                           r.part_number, n.block)]
  /\ UNCHANGED <<block_size, quotas, faults, tableVars, history, chunkerVars, adminVars>>

\* object row, Version row and first block; the checks; then the blocks
PutPartBegin(p) ==
  /\ req[p].op = "putpart" /\ req[p].pc = "part_begin"
  /\ LET r == req[p]
         n == ChunkerNext(r.chunker)
         object == ObjectGet(object_table)
         version == VersionGet(version_table, r.uuid)
         r1 == [r EXCEPT !.chunker = n.c]
     IN req' = [req EXCEPT ![p] =
          IF n.kind = "Err" THEN Finish(r1, StreamError)
          ELSE IF n.kind = "None" THEN Finish(r1, ErrRes("BadRequest", "Empty body"))
          ELSE IF ~object.some THEN Finish(r1, ErrRes("BadRequest", "Object not found"))
          ELSE IF ~HasUploading(object, r.uuid) THEN Finish(r1, ErrRes("NoSuchUpload", ""))
          ELSE IF version.some /\ HasPartNumber(version.val, r.part_number)
          THEN Finish(r1, ErrRes("BadRequest", "Part number has already been uploaded"))
          ELSE EnterBlocks([r1 EXCEPT !.version = NewVersion(r.uuid)],
                           r.part_number, n.block)]
  /\ UNCHANGED <<block_size, quotas, faults, tableVars, history, chunkerVars, adminVars>>

\* the Version row with the etag of the part
PutPartInsertEtag(p) ==
  /\ req[p].op = "putpart" /\ req[p].pc = "insert_etag"
  /\ version_table' = VersionInsert(version_table, req[p].version)
  /\ req' = [req EXCEPT ![p] = Finish(Wrote(req[p], "version"), OkRes)]
  /\ history' = LogWrite(p, "request", "version", req[p].uuid, "etag")
  /\ UNCHANGED <<block_size, quotas, faults, object_table, block_ref_table, block_store,
                 chunkerVars, adminVars>>

\* crdt::Map::items of a map with integer keys: the pairs in key order
RECURSIVE EtagItems(_)
EtagItems(m) ==
  IF DOMAIN m = {} THEN <<>>
  ELSE LET k == MaxOf(DOMAIN m)
       IN Append(EtagItems([x \in DOMAIN m \ {k} |-> m[x]]), <<k, m[k]>>)

\* the first key of the block map, ordered by (part_number, offset)
FirstBlockKey(blocks) ==
  CHOOSE k \in DOMAIN blocks :
    \A j \in DOMAIN blocks : k[1] < j[1] \/ (k[1] = j[1] /\ k[2] <= j[2])

BlockParts(blocks) == {k[1] : k \in DOMAIN blocks}

RECURSIVE SortedSeq(_)
SortedSeq(S) ==
  IF S = {} THEN <<>> ELSE Append(SortedSeq(S \ {MaxOf(S)}), MaxOf(S))

Part(part_number, etag) == [part_number |-> part_number, etag |-> etag]

\* an etag that hashes the part etags from the last part to the first
MultipartEtagReversed(parts_etags, num_parts) ==
  [md5 |-> HexEncode(Md5sum([i \in 1..Len(EtagItems(parts_etags)) |->
                               EtagItems(parts_etags)[Len(EtagItems(parts_etags)) + 1 - i][2]])),
   num_parts |-> num_parts]

\* the etag of a completed multipart upload
MultipartEtag(parts_etags, num_parts) ==
  [md5 |-> HexEncode(Md5sum([i \in 1..Len(EtagItems(parts_etags)) |->
                               EtagItems(parts_etags)[i][2]])),
   num_parts |-> num_parts]

\* a validation that does not compare the parts of the blocks with the list
CompleteCheckNoBlockParts(object, version, uuid, parts) ==
  IF ~object.some THEN ErrRes("NoSuchKey", "")
  ELSE IF ~HasUploading(object, uuid) THEN ErrRes("NoSuchUpload", "")
  ELSE IF ~version.some THEN ErrRes("NoSuchKey", "")
  ELSE IF DOMAIN version.val.blocks = {} THEN ErrRes("BadRequest", "No data was uploaded")
  ELSE IF parts = <<>> THEN ErrRes("EntityTooSmall", "")
  ELSE IF ~\A i \in 1..(Len(parts) - 1) : parts[i].part_number < parts[i + 1].part_number
  THEN ErrRes("InvalidPartOrder", "")
  ELSE IF \/ parts[1].part_number # 1
          \/ ~\A i \in 1..(Len(parts) - 1) :
                 parts[i].part_number + 1 = parts[i + 1].part_number
  THEN ErrRes("NotImplemented", "non-consecutive part numbers")
  ELSE IF [i \in 1..Len(parts) |-> <<parts[i].part_number, parts[i].etag>>]
            # EtagItems(version.val.parts_etags)
  THEN ErrRes("InvalidPart", "")
  ELSE OkRes

\* a validation that compares the etags before it looks at the order
CompleteCheckEtagsFirst(object, version, uuid, parts) ==
  IF ~object.some THEN ErrRes("NoSuchKey", "")
  ELSE IF ~HasUploading(object, uuid) THEN ErrRes("NoSuchUpload", "")
  ELSE IF ~version.some THEN ErrRes("NoSuchKey", "")
  ELSE IF DOMAIN version.val.blocks = {} THEN ErrRes("BadRequest", "No data was uploaded")
  ELSE IF parts = <<>> THEN ErrRes("EntityTooSmall", "")
  ELSE IF [i \in 1..Len(parts) |-> <<parts[i].part_number, parts[i].etag>>]
            # EtagItems(version.val.parts_etags)
  THEN ErrRes("InvalidPart", "")
  ELSE IF ~\A i \in 1..(Len(parts) - 1) : parts[i].part_number < parts[i + 1].part_number
  THEN ErrRes("InvalidPartOrder", "")
  ELSE IF \/ parts[1].part_number # 1
          \/ ~\A i \in 1..(Len(parts) - 1) :
                 parts[i].part_number + 1 = parts[i + 1].part_number
  THEN ErrRes("NotImplemented", "non-consecutive part numbers")
  ELSE IF [i \in 1..Len(parts) |-> parts[i].part_number]
            # SortedSeq(BlockParts(version.val.blocks))
  THEN ErrRes("BadRequest", "Part numbers in block list and part list do not match")
  ELSE OkRes

\* a validation that answers an empty list as S3 does
CompleteCheckMalformedXml(object, version, uuid, parts) ==
  IF ~object.some THEN ErrRes("NoSuchKey", "")
  ELSE IF ~HasUploading(object, uuid) THEN ErrRes("NoSuchUpload", "")
  ELSE IF ~version.some THEN ErrRes("NoSuchKey", "")
  ELSE IF DOMAIN version.val.blocks = {} THEN ErrRes("BadRequest", "No data was uploaded")
  ELSE IF parts = <<>> THEN ErrRes("MalformedXML", "")
  ELSE IF ~\A i \in 1..(Len(parts) - 1) : parts[i].part_number < parts[i + 1].part_number
  THEN ErrRes("InvalidPartOrder", "")
  ELSE IF \/ parts[1].part_number # 1
          \/ ~\A i \in 1..(Len(parts) - 1) :
                 parts[i].part_number + 1 = parts[i + 1].part_number
  THEN ErrRes("NotImplemented", "non-consecutive part numbers")
  ELSE IF [i \in 1..Len(parts) |-> <<parts[i].part_number, parts[i].etag>>]
            # EtagItems(version.val.parts_etags)
  THEN ErrRes("InvalidPart", "")
  ELSE IF [i \in 1..Len(parts) |-> parts[i].part_number]
            # SortedSeq(BlockParts(version.val.blocks))
  THEN ErrRes("BadRequest", "Part numbers in block list and part list do not match")
  ELSE OkRes

\* the validation of handle_complete_multipart_upload
CompleteCheck(object, version, uuid, parts) ==
  IF ~object.some THEN ErrRes("NoSuchKey", "")
  ELSE IF ~HasUploading(object, uuid) THEN ErrRes("NoSuchUpload", "")
  ELSE IF ~version.some THEN ErrRes("NoSuchKey", "")
  ELSE IF DOMAIN version.val.blocks = {} THEN ErrRes("BadRequest", "No data was uploaded")
  ELSE IF parts = <<>> THEN ErrRes("EntityTooSmall", "")
  ELSE IF ~\A i \in 1..(Len(parts) - 1) : parts[i].part_number < parts[i + 1].part_number
  THEN ErrRes("InvalidPartOrder", "")
  ELSE IF \/ parts[1].part_number # 1
          \/ ~\A i \in 1..(Len(parts) - 1) :
                 parts[i].part_number + 1 = parts[i + 1].part_number
  THEN ErrRes("NotImplemented", "non-consecutive part numbers")
  ELSE IF [i \in 1..Len(parts) |-> <<parts[i].part_number, parts[i].etag>>]
            # EtagItems(version.val.parts_etags)
  THEN ErrRes("InvalidPart", "")
  ELSE IF [i \in 1..Len(parts) |-> parts[i].part_number]
            # SortedSeq(BlockParts(version.val.blocks))
  THEN ErrRes("BadRequest", "Part numbers in block list and part list do not match")
  ELSE OkRes

WrongEtag == HexEncode(Md5sum(WrongBytes))

\* the part lists a client may send for an upload: part numbers in some
\* order, each with the etag stored for it or a wrong one
PartLists(uuid) ==
  LET stored(n) ==
        IF uuid \in DOMAIN version_table /\ n \in DOMAIN version_table[uuid].parts_etags
        THEN version_table[uuid].parts_etags[n] ELSE WrongEtag
      right(s) == [i \in 1..Len(s) |-> Part(s[i], stored(s[i]))]
      wrong(s) == [i \in 1..Len(s) |->
                     Part(s[i], IF i = Len(s) THEN WrongEtag ELSE stored(s[i]))]
      orders == {s \in SeqsUpTo(ListPartNumbers, MaxPart) :
                   \A i, j \in 1..Len(s) : i # j => s[i] # s[j]}
  IN {right(s) : s \in orders} \cup {wrong(s) : s \in orders}

\* the list as a client sends it, the etags inside double quotes or not
SentParts(parts, quoted) ==
  [i \in 1..Len(parts) |->
     [part_number |-> parts[i].part_number, etag |-> HeaderValue(parts[i].etag, quoted)]]

\* parse_complete_multipart_upload_body: the quotes around an etag are
\* trimmed
ParseCompleteBody(sent) ==
  [i \in 1..Len(sent) |-> Part(sent[i].part_number, TrimQuotes(sent[i].etag).text)]

\* handle_complete_multipart_upload: the request arrives
StartComplete(p) ==
  /\ CanStart(p)
  /\ \E upload_id \in UploadIds :
       \E parts \in PartLists(DecodeUploadId(upload_id).uuid), quoted \in BOOLEAN :
         req' = [req EXCEPT ![p] =
           WithUploadId([IdleReq EXCEPT !.op = "complete",
                                        !.parts = ParseCompleteBody(SentParts(parts, quoted))],
                        upload_id, "complete_read")]
  /\ UNCHANGED <<block_size, quotas, faults, tableVars, history, chunkerVars, adminVars>>

\* a handler that marks the upload Aborted when the validation fails
CompleteReadAbortsOnReject(p) ==
  /\ req[p].op = "complete" /\ req[p].pc = "complete_read"
  /\ LET r == req[p]
         object == ObjectGet(object_table)
         version == VersionGet(version_table, r.uuid)
         check == CompleteCheck(object, version, r.uuid, r.parts)
         uploading == {v \in object_table : v.uuid = r.uuid /\ IsUploading(v)}
         object_version == CHOOSE v \in object.val : v.uuid = r.uuid /\ IsUploading(v)
         blocks == version.val.blocks
     IN /\ req' = [req EXCEPT ![p] =
             IF check # OkRes
             THEN Finish(IF uploading # {} THEN Wrote(r, "object") ELSE r, check)
             ELSE [r EXCEPT !.pc = "complete_quotas",
                            !.existing = object,
                            !.timestamp = object_version.timestamp,
                            !.headers = object_version.state.headers,
                            !.etag = MultipartEtag(version.val.parts_etags, Len(r.parts)),
                            !.total_size = SumOver(DOMAIN blocks,
                                                   [k \in DOMAIN blocks |-> blocks[k].size]),
                            !.first_block_hash = blocks[FirstBlockKey(blocks)].hash]]
        /\ object_table' =
             IF check # OkRes /\ uploading # {}
             THEN ObjectInsert(object_table,
                    ObjectVersion(r.uuid, (CHOOSE v \in uploading : TRUE).timestamp, Aborted))
             ELSE object_table
  /\ UNCHANGED <<block_size, quotas, faults, version_table, block_ref_table, block_store,
                 history, chunkerVars, adminVars>>

\* object row and Version row, the validation, the etag and the total size
CompleteRead(p) ==
  /\ req[p].op = "complete" /\ req[p].pc = "complete_read"
  /\ LET r == req[p]
         object == ObjectGet(object_table)
         version == VersionGet(version_table, r.uuid)
         check == CompleteCheck(object, version, r.uuid, r.parts)
         object_version == CHOOSE v \in object.val : v.uuid = r.uuid /\ IsUploading(v)
         blocks == version.val.blocks
     IN req' = [req EXCEPT ![p] =
          IF check # OkRes THEN Finish(r, check)
          ELSE [r EXCEPT !.pc = "complete_quotas",
                         !.existing = object,
                         !.timestamp = object_version.timestamp,
                         !.headers = object_version.state.headers,
                         !.etag = MultipartEtag(version.val.parts_etags, Len(r.parts)),
                         !.total_size = SumOver(DOMAIN blocks,
                                                [k \in DOMAIN blocks |-> blocks[k].size]),
                         !.first_block_hash = blocks[FirstBlockKey(blocks)].hash]]
  /\ UNCHANGED <<block_size, quotas, faults, tableVars, history, chunkerVars, adminVars>>

\* check_quotas: any error of it, a failed counter read included, makes the
\* handler abort the upload
CompleteQuotas(p) ==
  /\ req[p].op = "complete" /\ req[p].pc = "complete_quotas"
  /\ \E q \in {CheckQuotas(quotas, counters, req[p].total_size, req[p].existing) :
                 counters \in CounterReads}
             \cup (IF QuotasSet THEN {InternalError} ELSE {}) :
       req' = [req EXCEPT ![p] =
         IF q = OkRes THEN [req[p] EXCEPT !.pc = "complete_insert"]
         ELSE [req[p] EXCEPT !.pc = "complete_abort", !.error = q]]
  /\ UNCHANGED <<block_size, quotas, faults, tableVars, history, chunkerVars, adminVars>>

\* a handler that returns the error of the quota check and leaves the row
CompleteInsertAbortedLeavesRow(p) ==
  /\ req[p].op = "complete" /\ req[p].pc = "complete_abort"
  /\ req' = [req EXCEPT ![p] = Finish(req[p], req[p].error)]
  /\ UNCHANGED <<block_size, quotas, faults, tableVars, history, chunkerVars, adminVars>>

\* the quota check failed: the object row in state Aborted, then the error
CompleteInsertAborted(p) ==
  /\ req[p].op = "complete" /\ req[p].pc = "complete_abort"
  /\ object_table' = ObjectInsert(object_table,
                        ObjectVersion(req[p].uuid, req[p].timestamp, Aborted))
  /\ req' = [req EXCEPT ![p] = Finish(Wrote(req[p], "object"), req[p].error)]
  /\ history' = LogWrite(p, "request", "object", req[p].uuid, "Aborted")
  /\ UNCHANGED <<block_size, quotas, faults, version_table, block_ref_table, block_store,
                 chunkerVars, adminVars>>

\* the object row in state Complete(FirstBlock)
CompleteInsert(p) ==
  /\ req[p].op = "complete" /\ req[p].pc = "complete_insert"
  /\ LET r == req[p]
         v == ObjectVersion(r.uuid, r.timestamp,
                CompleteFirstBlock(Meta(r.headers, r.total_size, r.etag),
                                   r.first_block_hash))
     IN /\ object_table' = ObjectInsert(object_table, v)
        /\ req' = [req EXCEPT ![p] =
             Finish([Wrote(r, "object") EXCEPT
                       !.returned_etag = Some(HeaderValue(r.etag, TRUE))], OkRes)]
        /\ history' = LogWrite(p, "request", "object", r.uuid, "Complete")
  /\ UNCHANGED <<block_size, quotas, faults, version_table, block_ref_table, block_store,
                 chunkerVars, adminVars>>

\* handle_abort_multipart_upload: the request arrives
StartAbort(p, ids) ==
  /\ CanStart(p)
  /\ \E upload_id \in ids :
       req' = [req EXCEPT ![p] =
         WithUploadId([IdleReq EXCEPT !.op = "abort"], upload_id, "abort_read")]
  /\ UNCHANGED <<block_size, quotas, faults, tableVars, history, chunkerVars, adminVars>>

\* the object row is read and the version in state Uploading looked up
AbortRead(p) ==
  /\ req[p].op = "abort" /\ req[p].pc = "abort_read"
  /\ LET r == req[p]
         object == ObjectGet(object_table)
         object_version == CHOOSE v \in object.val : v.uuid = r.uuid /\ IsUploading(v)
     IN req' = [req EXCEPT ![p] =
          IF ~object.some THEN Finish(r, ErrRes("NoSuchKey", ""))
          ELSE IF ~HasUploading(object, r.uuid) THEN Finish(r, ErrRes("NoSuchUpload", ""))
          ELSE [r EXCEPT !.pc = "abort_insert", !.timestamp = object_version.timestamp]]
  /\ UNCHANGED <<block_size, quotas, faults, tableVars, history, chunkerVars, adminVars>>

\* a handler that writes the Aborted version with a timestamp of its own
AbortInsertNewTimestamp(p) ==
  /\ req[p].op = "abort" /\ req[p].pc = "abort_insert"
  /\ object_table' = ObjectInsert(object_table,
                        ObjectVersion(req[p].uuid, req[p].timestamp + 1, Aborted))
  /\ req' = [req EXCEPT ![p] = Finish(Wrote(req[p], "object"), OkRes)]
  /\ history' = LogWrite(p, "request", "object", req[p].uuid, "Aborted")
  /\ UNCHANGED <<block_size, quotas, faults, version_table, block_ref_table, block_store,
                 chunkerVars, adminVars>>

\* the version is written back in state Aborted
AbortInsert(p) ==
  /\ req[p].op = "abort" /\ req[p].pc = "abort_insert"
  /\ object_table' = ObjectInsert(object_table,
                        ObjectVersion(req[p].uuid, req[p].timestamp, Aborted))
  /\ req' = [req EXCEPT ![p] = Finish(Wrote(req[p], "object"), OkRes)]
  /\ history' = LogWrite(p, "request", "object", req[p].uuid, "Aborted")
  /\ UNCHANGED <<block_size, quotas, faults, version_table, block_ref_table, block_store,
                 chunkerVars, adminVars>>

(* ---- the requests together, on one key ---- *)
\* bodies of the single PUTs: inline, and one block
MainPutStreams ==
  {<<OkItem(PatternBytes(1))>>, <<OkItem(PatternBytes(INLINE_THRESHOLD))>>}

\* bodies of the parts: empty, one block, and two blocks
MainPartStreams ==
  {<<>>,
   <<OkItem(PatternBytes(INLINE_THRESHOLD))>>,
   <<OkItem(PatternBytes(2)), OkItem(PatternBytes(INLINE_THRESHOLD - 1))>>}

\* the rows and the block an earlier CreateMultipartUpload followed by a
\* PutPart of part 1 with a body of one block leave behind
StoredBody == PatternBytes(INLINE_THRESHOLD)

StoredVersion ==
  LET new == NewVersion(StoredUploadId)
      block == [new EXCEPT !.blocks =
                  MapPut(@, VersionBlockKey(1, 0),
                         VersionBlock(Blake2sum(StoredBody), Len(StoredBody)))]
      etag == [new EXCEPT !.parts_etags = MapPut(@, 1, HexEncode(Md5sum(StoredBody)))]
  IN VersionInsert(VersionInsert(VersionInsert(EmptyMap, new), block), etag)

UploadInProgress ==
  /\ object_table = {ObjectVersion(StoredUploadId, 1, Uploading("h1"))}
  /\ version_table = StoredVersion
  /\ block_ref_table = {BlockRef(Blake2sum(StoredBody), StoredUploadId)}
  /\ block_store = {Blake2sum(StoredBody)}
  /\ history = {}

\* the key is new, or holds an upload in progress; the size quota leaves room
\* for the stored part and one more part
Init ==
  /\ IdleChunker /\ IdleAdmin /\ faults = MaxFaults
  /\ block_size = INLINE_THRESHOLD
  /\ quotas = [max_objects |-> Some(1), max_size |-> Some(QuotaBytes + MaxPutChunkLen)]
  /\ \/ EmptyTables /\ object_table = {}
     \/ UploadInProgress
  /\ req = [p \in Reqs |-> IdleReq]

MultipartSteps(p) ==
  \/ CreateInsertObject(p)
  \/ CreateInsertVersion(p)
  \/ PutPartBegin(p)
  \/ PutPartInsertEtag(p)
  \/ CompleteRead(p)
  \/ CompleteQuotas(p)
  \/ CompleteInsertAborted(p)
  \/ CompleteInsert(p)
  \/ AbortRead(p)
  \/ AbortInsert(p)

Next ==
  \E p \in Reqs :
    \/ StartPut(p, MainPutStreams, {<<None, None>>}, {"h1"})
    \/ StartCreate(p, {"h1"})
    \/ StartPutPart(p, MainPartStreams, {<<None, None>>})
    \/ StartComplete(p)
    \/ StartAbort(p, UploadIds)
    \/ PutSteps(p)
    \/ BlockSteps(p)
    \/ MultipartSteps(p)
    \/ EnvSteps(p)

Spec == Init /\ [][Next]_vars

(* ---- an upload with an interrupted part ---- *)
\* the rows and the blocks left behind when, after CreateMultipartUpload and
\* a PutPart of part 1, a PutPart of part 2 with a body of two blocks was
\* dropped once its blocks were stored and before its etag was inserted
InterruptedStream == <<OkItem(PatternBytes(2)), OkItem(PatternBytes(INLINE_THRESHOLD - 1))>>
InterruptedBlocks ==
  <<TakeMax(StreamBytes(InterruptedStream), INLINE_THRESHOLD).taken,
    TakeMax(StreamBytes(InterruptedStream), INLINE_THRESHOLD).rest>>

InterruptedVersion ==
  LET new == NewVersion(StoredUploadId)
      block(offset, bytes) ==
        [new EXCEPT !.blocks = MapPut(@, VersionBlockKey(2, offset),
                                      VersionBlock(Blake2sum(bytes), Len(bytes)))]
  IN VersionInsert(VersionInsert(StoredVersion, block(0, InterruptedBlocks[1])),
                   block(INLINE_THRESHOLD, InterruptedBlocks[2]))

UploadInterrupted ==
  /\ object_table = {ObjectVersion(StoredUploadId, 1, Uploading("h1"))}
  /\ version_table = InterruptedVersion
  /\ block_ref_table =
       {BlockRef(Blake2sum(b), StoredUploadId) :
          b \in {StoredBody, InterruptedBlocks[1], InterruptedBlocks[2]}}
  /\ block_store = {Blake2sum(b) : b \in {StoredBody, InterruptedBlocks[1],
                                           InterruptedBlocks[2]}}
  /\ history = {}

InitInterrupted ==
  /\ IdleChunker /\ IdleAdmin /\ faults = MaxFaults
  /\ block_size = INLINE_THRESHOLD
  /\ quotas = [max_objects |-> Some(1), max_size |-> Some(QuotaBytes + MaxPutChunkLen)]
  /\ UploadInterrupted
  /\ req = [p \in Reqs |-> IdleReq]

\* the bodies of the parts sent again: less than a block, one block
RetryPartStreams ==
  {<<OkItem(PatternBytes(1))>>, <<OkItem(PatternBytes(INLINE_THRESHOLD))>>}

NextInterrupted ==
  \E p \in Reqs :
    \/ StartPutPart(p, RetryPartStreams, {<<None, None>>})
    \/ StartComplete(p)
    \/ StartAbort(p, UploadIds)
    \/ BlockSteps(p)
    \/ PutPartBegin(p)
    \/ PutPartInsertEtag(p)
    \/ CompleteRead(p)
    \/ CompleteQuotas(p)
    \/ CompleteInsertAborted(p)
    \/ CompleteInsert(p)
    \/ AbortRead(p)
    \/ AbortInsert(p)
    \/ RpcFails(p)
    \/ DropTask(p)

SpecInterrupted == InitInterrupted /\ [][NextInterrupted]_vars

(* ---- PutParts of one part number running at once ---- *)
\* bodies of one block and of two blocks that differ in the first block
RacingPartStreams ==
  {<<OkItem(<<0, 1, 0>>)>>, <<OkItem(<<1, 1, 0>>)>>, <<OkItem(<<1, 0, 1>>), OkItem(<<1>>)>>}

InitRacingParts ==
  /\ IdleChunker /\ IdleAdmin /\ faults = MaxFaults
  /\ block_size = INLINE_THRESHOLD
  /\ quotas = NoQuotas
  /\ UploadInProgress
  /\ req = [p \in Reqs |-> IdleReq]

NextRacingParts ==
  \E p \in Reqs :
    \/ StartPutPart(p, RacingPartStreams, {<<None, None>>})
    \/ BlockSteps(p)
    \/ PutPartBegin(p)
    \/ PutPartInsertEtag(p)
    \/ RpcFails(p)
    \/ DropTask(p)

SpecRacingParts == InitRacingParts /\ [][NextRacingParts]_vars

(* ---- uploads whose calls all return ---- *)
\* bodies of no block, of less than a block, of one, two and three blocks,
\* and bodies whose stream ends in an error
ReturningStreams ==
  {<<>>,
   <<OkItem(PatternBytes(1))>>,
   <<OkItem(PatternBytes(INLINE_THRESHOLD))>>,
   <<OkItem(PatternBytes(2)), OkItem(PatternBytes(2))>>,
   <<OkItem(PatternBytes(MaxPutChunkLen)), OkItem(PatternBytes(MaxPutChunkLen))>>,
   <<ErrItem>>,
   <<OkItem(PatternBytes(MaxPutChunkLen)), ErrItem>>}

InitReturning ==
  /\ IdleChunker /\ IdleAdmin /\ faults = MaxFaults
  /\ block_size = INLINE_THRESHOLD
  /\ quotas = NoQuotas
  /\ UploadInProgress
  /\ req = [p \in Reqs |-> IdleReq]

\* the steps of save_stream and of handle_put_part
HandlerSteps(p) ==
  \/ PutSteps(p)
  \/ BlockSteps(p)
  \/ PutPartBegin(p)
  \/ PutPartInsertEtag(p)

NextReturning ==
  \/ StartPut(1, ReturningStreams, {<<None, None>>}, {"h1"})
  \/ StartPutPart(1, ReturningStreams, {<<None, None>>})
  \/ HandlerSteps(1)
  \/ CleanupInsert(1)
  \/ RpcFails(1)

\* every call the handler awaits returns, with a value or with an error, and
\* the runtime polls the handler again: the request never waits forever for
\* a step that can be taken
SpecReturning == InitReturning /\ [][NextReturning]_vars /\ WF_vars(HandlerSteps(1))

(* ---- check_quotas on its own ---- *)
\* the quotas of the bucket, the counters of the bucket and the object the
\* key holds, as check_quotas can find them
QuotaInputs ==
  {[max_objects |-> mo, max_size |-> ms] :
     mo \in {None} \cup {Some(n) : n \in 0..2},
     ms \in {None} \cup {Some(n) : n \in 0..QuotaBytes}}
CounterInputs == {[objects |-> o, bytes |-> b] : o \in 0..2, b \in 0..(QuotaBytes + 1)}
PrevObjects ==
  {{}, {ObjectVersion(0, 0, Aborted)}}
    \cup {{PriorVersion(0, PatternBytes(n))} : n \in 0..(INLINE_THRESHOLD - 1)}

\* the bodies of PUTs that take the inline path
InlineStreams == {<<OkItem(PatternBytes(n))>> : n \in 0..(INLINE_THRESHOLD - 1)}

InitQuotas ==
  /\ IdleChunker /\ IdleAdmin /\ EmptyTables /\ faults = 0
  /\ block_size = INLINE_THRESHOLD
  /\ quotas \in QuotaInputs
  /\ object_table \in PrevObjects
  /\ req = [p \in Reqs |-> IdleReq]

\* check_quotas called by the inline PUT; the request keeps the counters read
CheckQuotasCall(p) ==
  /\ req[p].op = "put" /\ req[p].pc = "inline_quotas"
  /\ \E counters \in CounterInputs :
     LET r == [req[p] EXCEPT !.counters = IF QuotasSet THEN Some(counters) ELSE None]
         q == CheckQuotas(quotas, counters, r.total_size, r.existing)
     IN req' = [req EXCEPT ![p] =
          IF q = OkRes THEN [r EXCEPT !.pc = "inline_insert"] ELSE Finish(r, q)]
  /\ UNCHANGED <<block_size, quotas, faults, tableVars, history, chunkerVars, adminVars>>

NextQuotas ==
  \/ StartPut(1, InlineStreams, {<<None, None>>}, {"h1"})
  \/ PutBegin(1)
  \/ CheckQuotasCall(1)
  \/ PutInlineInsert(1)

SpecQuotas == InitQuotas /\ [][NextQuotas]_vars

(* ---- decode_upload_id on its own ---- *)
\* the digits of a string in upper case
UpperCase(str) ==
  [i \in DOMAIN str |->
     IF \E k \in 11..16 : HexChars[k] = str[i]
     THEN UpperHexChars[(CHOOSE k \in 11..16 : HexChars[k] = str[i]) - 10]
     ELSE str[i]]

\* the strings a client may send as upload id: the ids of uuids in lower and
\* in upper case, hexadecimal strings of other lengths, among them the
\* encodings of 16 bytes, and strings with a character that is no digit
SentIds ==
  LET ids == {UploadIdOf(u) : u \in {StoredUploadId, 171, 43981}}
      half == {SubSeq(id, UUID_LEN + 1, 2 * UUID_LEN) : id \in ids}
  IN ids \cup {UpperCase(id) : id \in ids} \cup half
       \cup {Tail(id) : id \in ids}
       \cup {<<"0", "0">> \o id : id \in ids}
       \cup {[id EXCEPT ![1] = "g"] : id \in ids}
       \cup {<<>>, <<"n", "o">>}

NextUploadId ==
  \E p \in Reqs :
    \/ StartAbort(p, SentIds)
    \/ AbortRead(p)
    \/ AbortInsert(p)

SpecUploadId == Init /\ [][NextUploadId]_vars

(* ---- properties of a single PUT ---- *)
VersionsOf(uuid) == {v \in object_table : v.uuid = uuid}

BodyOf(r) == StreamBytes(r.body)
FirstBlockOf(r) == ChunkerNext(NewChunker(r.body, block_size)).block

PutDone(p) == req[p].op = "put" /\ req[p].pc = "done"
PutOk(p) == PutDone(p) /\ req[p].result = OkRes
\* the PUT took the streaming path: its body is error-free up to a first
\* block of at least INLINE_THRESHOLD bytes
Streaming(p) ==
  /\ req[p].op = "put" /\ req[p].uuid # 0
  /\ Len(FirstBlockOf(req[p])) >= INLINE_THRESHOLD
Inline(p) ==
  /\ req[p].op = "put" /\ req[p].uuid # 0
  /\ Len(FirstBlockOf(req[p])) < INLINE_THRESHOLD

PartKeys(blocks, part) == {k \in DOMAIN blocks : k[1] = part}
\* the blocks of a part lie end to end from offset 0
Contiguous(blocks, part) ==
  \A k \in PartKeys(blocks, part) :
    LET before == {j \in PartKeys(blocks, part) : j[2] < k[2]}
    IN k[2] = SumOver(before, [j \in before |-> blocks[j].size])
PartSize(blocks, part) ==
  SumOver(PartKeys(blocks, part), [j \in PartKeys(blocks, part) |-> blocks[j].size])

HasWritten(p, tbl, tag) ==
  \E h \in history : h.by = p /\ h.tbl = tbl /\ h.tag = tag

\* C1: a successful streaming PUT leaves its version Complete(FirstBlock)
\* with the size and the MD5 of the whole body, the hash of the block at
\* (part 1, offset 0) as first block hash, and part-1 blocks lying end to
\* end from offset 0 with sizes summing to the size of the body
C1_StreamingPutResult ==
  \A p \in Reqs : (PutOk(p) /\ Streaming(p)) =>
    /\ ErrorFree(req[p].body)
    /\ \E v \in object_table :
         /\ VersionsOf(req[p].uuid) = {v}
         /\ v.state.tag = "Complete" /\ v.state.data.kind = "FirstBlock"
         /\ v.state.data.meta.size = Len(BodyOf(req[p]))
         /\ v.state.data.meta.etag = HexEncode(Md5sum(BodyOf(req[p])))
         /\ req[p].uuid \in DOMAIN version_table
         /\ LET blocks == version_table[req[p].uuid].blocks
            IN /\ <<1, 0>> \in DOMAIN blocks
               /\ v.state.data.hash = blocks[<<1, 0>>].hash
               /\ DOMAIN blocks = PartKeys(blocks, 1)
               /\ Contiguous(blocks, 1)
               /\ PartSize(blocks, 1) = Len(BodyOf(req[p]))

C1_Witness ==
  /\ PutOk(1) /\ Streaming(1)
  /\ Len(req[1].body) = 2 /\ Len(BodyOf(req[1])) > 2 * block_size
  /\ Cardinality(DOMAIN version_table[1].blocks) = 3
  /\ \E v \in object_table : v.uuid = 1 /\ v.state.tag = "Complete"

\* the result of a successful inline PUT of body B
InlineResult(p) ==
  /\ req[p].writes = [NoWrites EXCEPT !.object = 1]
  /\ req[p].uuid \notin DOMAIN version_table
  /\ \A b \in block_ref_table : b.version # req[p].uuid
  /\ \E v \in object_table :
       /\ VersionsOf(req[p].uuid) = {v}
       /\ v.state.tag = "Complete" /\ v.state.data.kind = "Inline"
       /\ v.state.data.bytes = BodyOf(req[p])
       /\ v.state.data.meta.size = Len(BodyOf(req[p]))
       /\ v.state.data.meta.etag = HexEncode(Md5sum(BodyOf(req[p])))

\* C2 as claimed: for any block_size > 0, a successful PUT of a body shorter
\* than INLINE_THRESHOLD writes one Complete(Inline) object row holding the
\* body, and no Version or BlockRef row
C2_AnyBlockSize ==
  \A p \in Reqs :
    (PutOk(p) /\ ErrorFree(req[p].body) /\ Len(BodyOf(req[p])) < INLINE_THRESHOLD)
      => InlineResult(p)

\* C2: a successful PUT of a body shorter than INLINE_THRESHOLD and no
\* longer than block_size writes exactly one object row, Complete(Inline)
\* with the body as payload, its size and the hex MD5 of it as etag, and no
\* Version or BlockRef row
C2_InlinePut ==
  \A p \in Reqs :
    (/\ PutOk(p) /\ ErrorFree(req[p].body)
     /\ Len(BodyOf(req[p])) < INLINE_THRESHOLD
     /\ Len(BodyOf(req[p])) <= block_size)
      => InlineResult(p)

C2_Witness ==
  /\ PutOk(1) /\ Len(req[1].body) = 2
  /\ Len(req[1].body[1].bytes) = 1 /\ Len(req[1].body[2].bytes) = 1
  /\ block_size = 2 /\ InlineResult(1)

\* the PUT left its handler with an error, or was dropped, after the
\* cleanup handle was installed
AbnormalExit(p) ==
  /\ PutDone(p) /\ req[p].result # OkRes
  /\ req[p].failed_at \notin {"begin", "inline_quotas", "inline_insert"}

AbortedInRow(p) ==
  /\ \E v \in object_table :
       v.uuid = req[p].uuid /\ v.timestamp = req[p].timestamp /\ v.state.tag = "Aborted"
  /\ \A v \in VersionsOf(req[p].uuid) : v.state.tag # "Complete"

\* C5 as claimed: after an abnormal exit of a streaming PUT, once the
\* cleanup task has run, the object row holds the version in state Aborted
C5_AlwaysAborted ==
  \A p \in Reqs :
    (AbnormalExit(p) /\ req[p].cleanup \in {"done", "failed"}) => AbortedInRow(p)

\* C5: an abnormal exit of a streaming PUT spawns the cleanup task; once
\* the insert of that task has succeeded the object row holds the version,
\* same uuid and timestamp, in state Aborted and in no Complete state; the
\* request never wrote a Complete state
C5_CleanupAborts ==
  \A p \in Reqs : AbnormalExit(p) =>
    /\ req[p].cleanup \in {"spawned", "done", "failed"}
    /\ req[p].cleanup = "done" => AbortedInRow(p)
    /\ ~HasWritten(p, "object", "Complete")

C5_Witness ==
  /\ AbnormalExit(1) /\ req[1].cleanup = "done" /\ AbortedInRow(1)
  /\ req[1].result.kind = "Forbidden"
  /\ HasWritten(1, "object", "Uploading") /\ HasWritten(1, "block", "data")

\* C6: a streaming PUT that returns success has cancelled its cleanup
\* handle and no Aborted row is ever inserted for its version; the cleanup
\* task of any upload is spawned at most once
C6_CancelledOnSuccess ==
  \A p \in Reqs :
    /\ (PutOk(p) /\ Streaming(p)) =>
         /\ req[p].cleanup = "cancelled"
         /\ ~HasWritten(p, "object", "Aborted")
         /\ \A v \in VersionsOf(req[p].uuid) : v.state.tag # "Aborted"
    /\ req[p].spawns <= 1
    /\ req[p].cleanup \in {"spawned", "done", "failed"} <=> req[p].spawns = 1

C6_Witness ==
  /\ PutOk(1) /\ Streaming(1) /\ req[1].cleanup = "cancelled"
  /\ \E v \in object_table : v.uuid = 1 /\ v.state.tag = "Complete"

\* a checksum header of the request differs from the digest of the body
ChecksumMismatch(r) ==
  \/ r.content_sha256.some /\ r.content_sha256.val # Sha256sum(BodyOf(r))
  \/ r.content_md5.some
       /\ r.content_md5.val.text # Base64Encode(Md5sum(BodyOf(r)))

C7_WitnessInline ==
  /\ PutDone(1) /\ ChecksumMismatch(req[1]) /\ Inline(1)
  /\ req[1].result = ErrRes("BadRequest", "Unable to validate x-amz-content-sha256")

C8_WitnessAborted ==
  /\ PutDone(1) /\ req[1].failed_at = "insert_uploading"
  /\ HasWritten(1, "object", "Aborted") /\ ~HasWritten(1, "object", "Uploading")

\* the versions of the row other than the one of request p: for a single
\* PUT on its own, the versions of the row it fetched
PriorVersions(p) == {v \in object_table : v.uuid # req[p].uuid}

\* save_stream has fetched the row and chosen uuid and timestamp
HasIdentity(p) == req[p].op = "put" /\ req[p].uuid = GenUuid(p)

\* C11: the timestamp of the new version is max(now_ms, t + 1) for a clock
\* value now_ms and the largest timestamp t of the fetched row, now_ms when
\* the row is empty, and it is greater than every timestamp of that row
C11_TimestampAfterPrior ==
  \A p \in Reqs :
    HasIdentity(p) =>
      LET prior == {v.timestamp : v \in PriorVersions(p)}
      IN /\ \E now \in Clock :
              req[p].timestamp = IF prior = {} THEN now ELSE Max(now, MaxOf(prior) + 1)
         /\ \A t \in prior : req[p].timestamp > t

\* the clock is behind the stored version and the PUT succeeds with a
\* later timestamp
C11_Witness ==
  /\ PutOk(1) /\ PriorVersions(1) # {}
  /\ req[1].timestamp > MaxClock
  /\ \E v \in VersionsOf(GenUuid(1)) : v.timestamp = req[1].timestamp

\* the clock is ahead of the stored version by more than one
C11_WitnessClockAhead ==
  /\ PutOk(1) /\ PriorVersions(1) # {}
  /\ \A v \in PriorVersions(1) : req[1].timestamp > v.timestamp + 1

(* ---- properties of the requests together ---- *)
Terminal(v) == v.state.tag \in {"Complete", "Aborted"}

UploadingVersions == {v \in object_table : IsUploading(v)}

\* the requests that have inserted an Uploading row: single PUTs on the
\* streaming path and CreateMultipartUploads
Uploaders ==
  {p \in Reqs : req[p].op \in {"put", "create"} /\ HasWritten(p, "object", "Uploading")}

\* C9: a version that is Complete or Aborted in the object row keeps that
\* state in every later step, whatever request or cleanup task takes it
C9_TerminalStatesStay ==
  [][\A v \in object_table :
       Terminal(v) =>
         \E w \in object_table' :
           /\ w.uuid = v.uuid /\ w.timestamp = v.timestamp
           /\ w.state.tag = v.state.tag]_vars

\* C10 as stated: the row of the key never holds two versions in state
\* Uploading
C10_AtMostOneUploading == Cardinality(UploadingVersions) <= 1

\* C10: the row holds at most one version per uuid, and every version in
\* state Uploading is the one of an upload of its own: the upload stored
\* at the start, or a single PUT or CreateMultipartUpload that inserted it;
\* so the Uploading versions are at most as many as these uploads
C10_OneUploadingPerUpload ==
  /\ \A v, w \in object_table : v.uuid = w.uuid => v = w
  /\ \A v \in UploadingVersions :
       \/ v.uuid = StoredUploadId
       \/ \E p \in Uploaders : req[p].uuid = v.uuid
  /\ Cardinality(UploadingVersions) <= Cardinality(Uploaders) + 1

\* a single PUT and a CreateMultipartUpload both have their version in
\* state Uploading in the row
C10_Witness ==
  \E p, q \in Uploaders :
    /\ req[p].op = "put" /\ req[q].op = "create"
    /\ \E v, w \in UploadingVersions : v.uuid = req[p].uuid /\ w.uuid = req[q].uuid

\* C12: a step that adds a version to the row of the key, for a single
\* PUT or a CreateMultipartUpload, gives it the timestamp
\* max(now_ms, t + 1) for the largest timestamp t stored for the key, so a
\* timestamp greater than that of every version already stored
C12_MonotonicPerKey ==
  [][\A v \in object_table' :
       (\A w \in object_table : w.uuid # v.uuid) =>
         LET stored == {w.timestamp : w \in object_table}
         IN /\ \E now \in Clock :
                 v.timestamp = IF stored = {} THEN now ELSE Max(now, MaxOf(stored) + 1)
            /\ \A t \in stored : v.timestamp > t]_vars

\* request p returns from its handler in this step
Returns(p, op) == req[p].op = op /\ req[p].pc # "done" /\ req'[p].pc = "done"
ReturnsOk(p, op) == Returns(p, op) /\ req'[p].result = OkRes

\* C13: when CreateMultipartUpload returns success the object row holds
\* the new version in state Uploading with the request headers, the Version
\* row of that uuid has no blocks and no part etags, the object row was
\* inserted in an earlier step than the Version row, and the returned
\* upload id decodes to the uuid
C13_CreateResult ==
  [][\A p \in Reqs :
       ReturnsOk(p, "create") =>
         LET uuid == req'[p].uuid
         IN /\ \E v \in object_table' :
                 v.uuid = uuid /\ v.state = Uploading(req'[p].headers)
            /\ VersionGet(version_table', uuid) = Some(NewVersion(uuid))
            /\ HasWritten(p, "object", "Uploading")
            /\ ~HasWritten(p, "version", "new")
            /\ DecodeUploadId(req'[p].upload_id) = [res |-> OkRes, uuid |-> uuid]]_vars

\* a CreateMultipartUpload has returned success with its upload id
C13_Witness ==
  \E p \in Reqs :
    /\ req[p].op = "create" /\ req[p].pc = "done" /\ req[p].result = OkRes
    /\ req[p].upload_id = UploadIdOf(GenUuid(p))
    /\ \E v \in object_table : v.uuid = req[p].uuid /\ IsUploading(v)
    /\ req[p].uuid \in DOMAIN version_table

\* the handler of PutPart p comes to its checks in this step and no read
\* of it fails
PutPartChecks(p) ==
  /\ req[p].op = "putpart" /\ req[p].pc = "part_begin" /\ req'[p].pc # "part_begin"
  /\ req'[p].result.kind \notin {"InternalError", "Dropped", "StreamError"}

EmptyBody(p) == ErrorFree(req[p].body) /\ StreamBytes(req[p].body) = <<>>

NoUploadingRow(uuid) == ~\E v \in object_table : v.uuid = uuid /\ IsUploading(v)

\* C14: a PutPart with an empty body fails with BadRequest("Empty body");
\* one with a body, for which the object row does not exist or holds no
\* version of the uuid in state Uploading, fails with NoSuchUpload; such a
\* request ends there and has written no block, Version row or BlockRef row
C14_PutPartRejects ==
  [][\A p \in Reqs :
       PutPartChecks(p) =>
         /\ EmptyBody(p) => req'[p].result = ErrRes("BadRequest", "Empty body")
         /\ (~EmptyBody(p) /\ NoUploadingRow(req[p].uuid)) =>
              req'[p].result = ErrRes("NoSuchUpload", "")
         /\ (EmptyBody(p) \/ NoUploadingRow(req[p].uuid)) =>
              /\ req'[p].pc = "done" /\ req'[p].writes = NoWrites
              /\ tableVars' = tableVars]_vars

AlreadyUploaded == ErrRes("BadRequest", "Part number has already been uploaded")

\* the Version row of the upload shows the etag of part n
PartVisible(uuid, n) ==
  uuid \in DOMAIN version_table /\ n \in DOMAIN version_table[uuid].parts_etags

\* C15 as stated: a PutPart that comes to its checks when the etag of its
\* part is visible in the Version row is rejected as already uploaded and
\* writes nothing
C15_AlwaysAlreadyUploaded ==
  [][\A p \in Reqs :
       (PutPartChecks(p) /\ PartVisible(req[p].uuid, req[p].part_number)) =>
         /\ req'[p].pc = "done" /\ req'[p].result = AlreadyUploaded
         /\ req'[p].writes = NoWrites /\ tableVars' = tableVars]_vars

\* C15: a PutPart that comes to its checks when the etag of its part is
\* visible in the Version row is rejected and writes nothing; the error is
\* the BadRequest for a part already uploaded when its body is not empty
\* and the upload is still in state Uploading
C15_RejectedOnceVisible ==
  [][\A p \in Reqs :
       (PutPartChecks(p) /\ PartVisible(req[p].uuid, req[p].part_number)) =>
         /\ req'[p].pc = "done" /\ req'[p].result # OkRes
         /\ req'[p].writes = NoWrites /\ tableVars' = tableVars
         /\ (~EmptyBody(p) /\ ~NoUploadingRow(req[p].uuid)) =>
              req'[p].result = AlreadyUploaded]_vars

\* a PutPart for a part already stored was rejected as already uploaded
C15_Witness ==
  \E p \in Reqs :
    /\ req[p].op = "putpart" /\ req[p].pc = "done" /\ req[p].result = AlreadyUploaded
    /\ PartVisible(req[p].uuid, req[p].part_number)
    /\ req[p].writes = NoWrites

PutPartOk(p) == req[p].op = "putpart" /\ req[p].pc = "done" /\ req[p].result = OkRes

\* C16: for each upload and part number at most one PutPart request
\* returns success
C16_AtMostOnce ==
  \A p, q \in Reqs :
    (/\ PutPartOk(p) /\ PutPartOk(q)
     /\ req[p].uuid = req[q].uuid /\ req[p].part_number = req[q].part_number) => p = q

\* CompleteMultipartUpload p passes its validation in this step
CompletePasses(p) ==
  req[p].op = "complete" /\ req[p].pc = "complete_read" /\ req'[p].pc = "complete_quotas"

\* CompleteMultipartUpload p fails its validation in this step
CompleteRejects(p) ==
  /\ req[p].op = "complete" /\ req[p].pc = "complete_read" /\ req'[p].pc = "done"
  /\ req'[p].result.kind \notin {"InternalError", "Dropped"}

PartMismatch ==
  ErrRes("BadRequest", "Part numbers in block list and part list do not match")

\* the parts that have blocks in the Version row but no etag
PartialParts(uuid) ==
  IF uuid \in DOMAIN version_table
  THEN {k[1] : k \in DOMAIN version_table[uuid].blocks}
         \ DOMAIN version_table[uuid].parts_etags
  ELSE {}

\* the request list is 1..k with the stored etags
ListsStoredParts(p) ==
  LET parts == req[p].parts
      stored == version_table[req[p].uuid].parts_etags
  IN /\ parts # <<>>
     /\ \A i \in 1..Len(parts) : parts[i].part_number = i
     /\ DOMAIN stored = 1..Len(parts)
     /\ \A i \in 1..Len(parts) : parts[i].etag = stored[i]

C17_WitnessPartial ==
  \E p \in Reqs :
    /\ req[p].op = "complete" /\ req[p].pc = "done" /\ req[p].result = PartMismatch
    /\ PartialParts(req[p].uuid) # {}

\* CompleteMultipartUpload p runs its validation in this step, on an upload
\* in state Uploading whose Version row has blocks, with a list of parts
ValidatesList(p) ==
  /\ req[p].op = "complete" /\ req[p].pc = "complete_read" /\ req'[p].pc # "complete_read"
  /\ req'[p].result.kind \notin {"InternalError", "Dropped"}
  /\ ~NoUploadingRow(req[p].uuid)
  /\ req[p].uuid \in DOMAIN version_table
  /\ DOMAIN version_table[req[p].uuid].blocks # {}
  /\ req[p].parts # <<>>

Increasing(parts) ==
  \A i \in 1..(Len(parts) - 1) : parts[i].part_number < parts[i + 1].part_number

FromOne(parts) == \A i \in 1..Len(parts) : parts[i].part_number = i

\* C18: for an upload in state Uploading with blocks and a list that is
\* not empty: part numbers not strictly increasing give InvalidPartOrder;
\* strictly increasing ones that are not 1..k give NotImplemented; a list
\* 1..k whose pairs are not the stored ones gives InvalidPart
C18_ListErrors ==
  [][\A p \in Reqs :
       ValidatesList(p) =>
         LET parts == req[p].parts
         IN /\ ~Increasing(parts) => req'[p].result.kind = "InvalidPartOrder"
            /\ (Increasing(parts) /\ ~FromOne(parts)) =>
                 req'[p].result.kind = "NotImplemented"
            /\ (FromOne(parts) /\ ~ListsStoredParts(p)) =>
                 req'[p].result.kind = "InvalidPart"]_vars

HasWrongEtag(parts) == \E i \in 1..Len(parts) : parts[i].etag = WrongEtag

CompleteFailed(p, kind) ==
  req[p].op = "complete" /\ req[p].pc = "done" /\ req[p].result.kind = kind

\* a list out of order with a wrong etag was rejected for its order, and a
\* list 1, 3 as not implemented
C18_Witness ==
  \E p, q \in Reqs :
    /\ CompleteFailed(p, "InvalidPartOrder") /\ HasWrongEtag(req[p].parts)
    /\ CompleteFailed(q, "NotImplemented") /\ Len(req[q].parts) = 2
    /\ req[q].parts[1].part_number = 1 /\ req[q].parts[2].part_number = 3

\* a list 1..k with a wrong etag was rejected as InvalidPart
C18_WitnessInvalidPart ==
  \E p \in Reqs :
    /\ CompleteFailed(p, "InvalidPart") /\ FromOne(req[p].parts)
    /\ HasWrongEtag(req[p].parts)

\* CompleteMultipartUpload p runs its validation in this step, on an upload
\* in state Uploading, with a list of zero parts
ValidatesEmptyList(p) ==
  /\ req[p].op = "complete" /\ req[p].pc = "complete_read" /\ req'[p].pc # "complete_read"
  /\ req'[p].result.kind \notin {"InternalError", "Dropped"}
  /\ ~NoUploadingRow(req[p].uuid)
  /\ req[p].parts = <<>>

HasBlocks(uuid) == uuid \in DOMAIN version_table /\ DOMAIN version_table[uuid].blocks # {}

CompleteValidationFailed(p) ==
  /\ req[p].op = "complete" /\ req[p].pc = "done"
  /\ req[p].failed_at \in {"decode_upload_id", "complete_read"}
  /\ req[p].result.kind \in {"NoSuchKey", "NoSuchUpload", "BadRequest", "EntityTooSmall",
                             "InvalidPartOrder", "NotImplemented", "InvalidPart"}

UploadingIn(row, uuid) == \E v \in row : v.uuid = uuid /\ IsUploading(v)

\* C20: a CompleteMultipartUpload that fails a validation check writes
\* nothing: the step on which it returns the error leaves the object row, the
\* Version rows, the BlockRef rows and the block store as they were, the
\* request has made no write before and makes none after, and an upload that
\* was Uploading is still Uploading
C20_FailedCompleteWritesNothing ==
  [][\A p \in Reqs :
       /\ (~CompleteValidationFailed(p) /\ CompleteValidationFailed(p)') =>
            /\ tableVars' = tableVars
            /\ history' = history
            /\ req'[p].writes = NoWrites
            /\ UploadingIn(object_table, req'[p].uuid) =>
                 UploadingIn(object_table', req'[p].uuid)
       /\ CompleteValidationFailed(p) => req'[p] = req[p]]_vars

\* a CompleteMultipartUpload failed the validation of an upload that had
\* data, and a later CompleteMultipartUpload of the same upload succeeded
C20_Witness ==
  \E p, q \in Reqs :
    /\ p < q
    /\ CompleteValidationFailed(p) /\ req[p].failed_at = "complete_read"
    /\ req[p].writes = NoWrites
    /\ req[q].op = "complete" /\ req[q].pc = "done" /\ req[q].result = OkRes
    /\ req[q].uuid = req[p].uuid
    /\ \E v \in object_table : v.uuid = req[p].uuid /\ v.state.tag = "Complete"

\* the etag of k parts: the MD5 of the etags of parts 1..k one after the
\* other, with the number of parts
EtagOfParts(parts_etags, k) ==
  [md5 |-> HexEncode(Md5sum([i \in 1..k |-> parts_etags[i]])), num_parts |-> k]

CompleteOk(p) == req[p].op = "complete" /\ req[p].pc = "done" /\ req[p].result = OkRes

\* C21: a CompleteMultipartUpload that passes the validation has a list of
\* k parts where the Version row holds the etags of exactly the parts 1..k,
\* and computes the etag of these k etags in part order; on success it
\* writes that etag into the Complete state of the version and returns it
\* within double quotes
C21_CompleteEtag ==
  [][\A p \in Reqs :
       /\ CompletePasses(p) =>
            LET version == version_table[req[p].uuid]
                k == Len(req[p].parts)
            IN /\ DOMAIN version.parts_etags = 1..k
               /\ Cardinality(DOMAIN version.parts_etags) = k
               /\ req'[p].etag = EtagOfParts(version.parts_etags, k)
       /\ ReturnsOk(p, "complete") =>
            /\ req'[p].returned_etag = Some(HeaderValue(req[p].etag, TRUE))
            /\ req[p].etag.num_parts = Len(req[p].parts)
            /\ UploadingIn(object_table, req[p].uuid) =>
                 \E v \in object_table' :
                   /\ v.uuid = req[p].uuid /\ IsComplete(v)
                   /\ v.state.data.meta.etag = req[p].etag]_vars

\* a CompleteMultipartUpload of two parts succeeded and its etag is in the
\* object row
C21_Witness ==
  \E p \in Reqs :
    /\ CompleteOk(p) /\ Len(req[p].parts) = 2
    /\ \E v \in VersionsOf(req[p].uuid) :
         /\ IsComplete(v)
         /\ Some(HeaderValue(v.state.data.meta.etag, TRUE)) = req[p].returned_etag
         /\ v.state.data.meta.etag.num_parts = 2
         /\ v.state.data.meta.etag =
              EtagOfParts(version_table[req[p].uuid].parts_etags, 2)
         /\ version_table[req[p].uuid].parts_etags[1] #
              version_table[req[p].uuid].parts_etags[2]

\* the tables hold what an interrupted PutPart of part 2 leaves behind
LeftInterrupted ==
  /\ object_table = {ObjectVersion(StoredUploadId, 1, Uploading("h1"))}
  /\ version_table = InterruptedVersion
  /\ block_ref_table =
       {BlockRef(Blake2sum(b), StoredUploadId) :
          b \in {StoredBody, InterruptedBlocks[1], InterruptedBlocks[2]}}
  /\ block_store = {Blake2sum(b) : b \in {StoredBody, InterruptedBlocks[1],
                                           InterruptedBlocks[2]}}
  /\ \E p \in Reqs : req[p].op = "putpart" /\ req[p].pc = "done" /\ req[p].result = Dropped

\* the bytes of the bodies of the successful PutParts of an upload
UploadedBytes(uuid) ==
  LET ok == {q \in Reqs : PutPartOk(q) /\ req[q].uuid = uuid}
  IN (IF uuid = StoredUploadId THEN Len(StoredBody) ELSE 0)
       + SumOver(ok, [q \in ok |-> Len(BodyOf(req[q]))])

\* C22: a CompleteMultipartUpload that passes the validation takes the
\* timestamp and the headers of the Uploading version, a size that is the sum
\* of the sizes of the blocks of the Version row and the sum of the lengths of
\* the bodies of the successful PutParts, and the hash of the block at
\* (part 1, offset 0); on success it turns the Uploading version into
\* Complete(FirstBlock) with these values
C22_CompleteResult ==
  [][\A p \in Reqs :
       /\ CompletePasses(p) =>
            LET blocks == version_table[req[p].uuid].blocks
            IN /\ \E u \in object_table :
                    /\ u.uuid = req[p].uuid /\ IsUploading(u)
                    /\ req'[p].timestamp = u.timestamp
                    /\ req'[p].headers = u.state.headers
               /\ req'[p].total_size =
                    SumOver(DOMAIN blocks, [k \in DOMAIN blocks |-> blocks[k].size])
               /\ req'[p].total_size = UploadedBytes(req[p].uuid)
               /\ <<1, 0>> \in DOMAIN blocks
               /\ req'[p].first_block_hash = blocks[<<1, 0>>].hash
       /\ (ReturnsOk(p, "complete") /\ UploadingIn(object_table, req[p].uuid)) =>
            \E u \in object_table, v \in object_table' :
              /\ u.uuid = req[p].uuid /\ IsUploading(u)
              /\ VersionsOf(req[p].uuid)' = {v}
              /\ v.uuid = u.uuid /\ v.timestamp = u.timestamp
              /\ v.state.tag = "Complete" /\ v.state.data.kind = "FirstBlock"
              /\ v.state.data.meta.headers = u.state.headers
              /\ v.state.data.meta.size = req[p].total_size
              /\ v.state.data.hash = req[p].first_block_hash]_vars

\* the quota check of a CompleteMultipartUpload said the quota is reached
QuotaFailed(p) ==
  req[p].op = "complete" /\ req[p].pc = "complete_abort" /\ req[p].error.kind = "Forbidden"

\* C23: a CompleteMultipartUpload whose quota check failed goes on, unless
\* the insert fails or the request is dropped, by writing the version with
\* its uuid and timestamp in state Aborted and returning the Forbidden error
\* of the check; a CompleteMultipartUpload that returned Forbidden wrote
\* Aborted to the object row, wrote no Complete state, and the version is
\* Aborted in the row
C23_QuotaAbort ==
  [][\A p \in Reqs :
       /\ (QuotaFailed(p) /\ req'[p] # req[p]
             /\ req'[p].result.kind \notin {"InternalError", "Dropped"}) =>
            /\ req'[p].pc = "done" /\ req'[p].result = req[p].error
            /\ req'[p].writes = [NoWrites EXCEPT !.object = 1]
            /\ \E u \in object_table :
                 /\ u.uuid = req[p].uuid
                 /\ VersionsOf(req[p].uuid)' = {ObjectVersion(u.uuid, u.timestamp, Aborted)}
            /\ object_table' \ VersionsOf(req[p].uuid)' =
                 object_table \ VersionsOf(req[p].uuid)
       /\ CompleteFailed(p, "Forbidden") =>
            /\ HasWritten(p, "object", "Aborted")
            /\ ~HasWritten(p, "object", "Complete")
            /\ \A v \in VersionsOf(req[p].uuid) : v.state = Aborted
            /\ req'[p] = req[p]]_vars

\* a CompleteMultipartUpload of an upload in progress returned Forbidden and
\* the version is Aborted with the timestamp it had
C23_Witness ==
  \E p \in Reqs :
    /\ CompleteFailed(p, "Forbidden") /\ req[p].uuid = StoredUploadId
    /\ VersionsOf(req[p].uuid) = {ObjectVersion(StoredUploadId, 1, Aborted)}
    /\ HasWritten(p, "object", "Aborted")

\* the step on which AbortMultipartUpload has read the object row
AbortReads(p) ==
  /\ req[p].op = "abort" /\ req[p].pc = "abort_read" /\ req'[p].pc # "abort_read"
  /\ req'[p].result.kind \notin {"InternalError", "Dropped"}

AbortFailed(p, kind) ==
  req[p].op = "abort" /\ req[p].pc = "done" /\ req[p].result.kind = kind

\* C24: AbortMultipartUpload fails with NoSuchKey when the key has no object
\* row and with NoSuchUpload when the row has no Uploading version of the
\* uuid, and then has written nothing and writes nothing; otherwise it goes
\* on to the insert, which leaves the Version rows, the BlockRef rows and the
\* blocks alone and turns the Uploading version into Aborted with the same
\* uuid and timestamp
C24_Abort ==
  [][\A p \in Reqs :
       /\ AbortReads(p) =>
            /\ tableVars' = tableVars /\ history' = history
            /\ req'[p].writes = NoWrites
            /\ object_table = {} =>
                 req'[p].pc = "done" /\ req'[p].result = ErrRes("NoSuchKey", "")
            /\ (object_table # {} /\ ~UploadingIn(object_table, req[p].uuid)) =>
                 req'[p].pc = "done" /\ req'[p].result = ErrRes("NoSuchUpload", "")
            /\ UploadingIn(object_table, req[p].uuid) => req'[p].pc = "abort_insert"
       /\ (AbortFailed(p, "NoSuchKey") \/ AbortFailed(p, "NoSuchUpload")) =>
            req[p].writes = NoWrites /\ req'[p] = req[p]
       /\ ReturnsOk(p, "abort") =>
            /\ <<version_table, block_ref_table, block_store>>' =
                 <<version_table, block_ref_table, block_store>>
            /\ req'[p].writes = [NoWrites EXCEPT !.object = 1]
            /\ object_table' \ VersionsOf(req[p].uuid)' =
                 object_table \ VersionsOf(req[p].uuid)
            /\ \A u \in object_table :
                 (u.uuid = req[p].uuid /\ IsUploading(u)) =>
                   VersionsOf(req[p].uuid)' = {ObjectVersion(u.uuid, u.timestamp, Aborted)}]_vars

\* an AbortMultipartUpload of the upload in progress succeeded: the version
\* is Aborted with its timestamp and the Version row is as it was
C24_Witness ==
  \E p \in Reqs :
    /\ req[p].op = "abort" /\ req[p].pc = "done" /\ req[p].result = OkRes
    /\ req[p].uuid = StoredUploadId
    /\ VersionsOf(StoredUploadId) = {ObjectVersion(StoredUploadId, 1, Aborted)}
    /\ version_table = StoredVersion
    /\ block_ref_table = {BlockRef(Blake2sum(StoredBody), StoredUploadId)}

\* AbortMultipartUpload failed with NoSuchKey on a key without row
C24_WitnessNoSuchKey ==
  \E p \in Reqs : AbortFailed(p, "NoSuchKey") /\ object_table = {}

\* AbortMultipartUpload failed with NoSuchUpload after reading the row
C24_WitnessNoSuchUpload ==
  \E p \in Reqs : /\ AbortFailed(p, "NoSuchUpload") /\ req[p].failed_at = "abort_read"
                    /\ object_table # {}

\* the step on which a request reads the object row and makes its checks
ReadsRow(p) ==
  /\ \/ req[p].op = "putpart" /\ req[p].pc = "part_begin"
     \/ req[p].op = "complete" /\ req[p].pc = "complete_read"
     \/ req[p].op = "abort" /\ req[p].pc = "abort_read"
  /\ req'[p].pc # req[p].pc
  /\ req'[p].result.kind \notin {"InternalError", "Dropped", "StreamError"}

C26_PartsContiguous ==
  \A uuid \in DOMAIN version_table :
    \A part \in BlockParts(version_table[uuid].blocks) :
      Contiguous(version_table[uuid].blocks, part)

\* the step on which check_quotas returns to the inline PUT
QuotaChecked(p) ==
  req[p].op = "put" /\ req[p].pc = "inline_quotas" /\ req'[p].pc # "inline_quotas"

\* a quota is set, the write adds to what it limits, and the counter with
\* what the write adds is beyond it
OverQuota(quota, current, diff) == quota.some /\ diff > 0 /\ current + diff > quota.val

\* C27: check_quotas rejects with Forbidden exactly when a quota that is set
\* is exceeded by the counter plus a positive difference, and lets the
\* request go on otherwise; it accepts when no quota is set, and it accepts
\* a write that adds neither an object nor bytes, whatever the counters
C27_CheckQuotas ==
  [][\A p \in Reqs :
       QuotaChecked(p) =>
         LET prev == PrevCounts(req[p].existing)
             cnt_obj_diff == 1 - prev.objects
             cnt_size_diff == req[p].total_size - prev.bytes
             read == req'[p].counters
             over == /\ read.some
                     /\ \/ OverQuota(quotas.max_objects, read.val.objects, cnt_obj_diff)
                        \/ OverQuota(quotas.max_size, read.val.bytes, cnt_size_diff)
         IN /\ (req'[p].result.kind = "Forbidden") <=> over
            /\ over => req'[p].pc = "done"
            /\ ~over => req'[p].pc = "inline_insert" /\ req'[p].result = Pending
            /\ quotas = NoQuotas => req'[p].pc = "inline_insert"
            /\ (cnt_obj_diff <= 0 /\ cnt_size_diff <= 0) => req'[p].pc = "inline_insert"]_vars

\* a PUT that replaces an object by a smaller one passed check_quotas although
\* both counters were beyond the quotas
C27_Witness ==
  \E p \in Reqs :
    /\ req[p].op = "put" /\ req[p].pc = "inline_insert"
    /\ req[p].existing.some /\ PrevCounts(req[p].existing).objects = 1
    /\ req[p].total_size < PrevCounts(req[p].existing).bytes
    /\ req[p].counters.some /\ quotas.max_objects.some /\ quotas.max_size.some
    /\ req[p].counters.val.objects > quotas.max_objects.val
    /\ req[p].counters.val.bytes > quotas.max_size.val

\* a PUT was rejected for the size quota alone
C27_WitnessForbidden ==
  \E p \in Reqs :
    /\ req[p].op = "put" /\ req[p].pc = "done" /\ req[p].result.kind = "Forbidden"
    /\ ~quotas.max_objects.some /\ quotas.max_size.some

\* the step on which a PUT has called ensure_checksum_matches: on the inline
\* path with the first block, on the streaming path after the last block
Validates(p) ==
  /\ req[p].op = "put"
  /\ \/ /\ req[p].pc = "begin"
        /\ \/ req'[p].pc = "inline_quotas"
           \/ /\ req'[p].pc = "done" /\ req'[p].failed_at = "begin"
              /\ req'[p].result.kind = "BadRequest"
     \/ /\ req[p].pc = "blocks"
        /\ \/ req'[p].pc = "quotas"
           \/ /\ req'[p].pc = "done" /\ req'[p].failed_at = "blocks"
              /\ req'[p].result.kind = "BadRequest"

\* the bytes the digests were taken of
Digested(p) == IF req[p].pc = "begin" THEN FirstBlockOf(req[p]) ELSE req[p].md5hasher

Sha256Differs(r, data) == r.content_sha256.some /\ r.content_sha256.val # Sha256sum(data)
Md5Differs(r, data) ==
  r.content_md5.some /\ r.content_md5.val.text # Base64Encode(Md5sum(data))

Sha256Error == ErrRes("BadRequest", "Unable to validate x-amz-content-sha256")
Md5Error == ErrRes("BadRequest", "Unable to validate content-md5")

\* C28 as stated: the validation passes exactly when no supplied checksum
\* differs from the digest of the whole body, a SHA-256 that differs gives
\* the SHA-256 error and an MD5 that differs gives the MD5 error
C28_EachMismatchItsError ==
  [][\A p \in Reqs :
       Validates(p) =>
         LET sha == Sha256Differs(req[p], BodyOf(req[p]))
             md5 == Md5Differs(req[p], BodyOf(req[p]))
         IN /\ (req'[p].pc # "done") <=> (~sha /\ ~md5)
            /\ sha => req'[p].result = Sha256Error
            /\ md5 => req'[p].result = Md5Error]_vars

\* C28: the validation passes exactly when no supplied checksum differs from
\* the digest of the bytes digested, the MD5 being compared without its
\* quotes; a SHA-256 that differs gives the SHA-256 error, and an MD5 that
\* differs gives the MD5 error when the SHA-256 is absent or equal. The bytes
\* digested are the whole body on the streaming path, and on the inline path
\* the first block, which is the whole body when it fits in a block
C28_ChecksumResult ==
  [][\A p \in Reqs :
       Validates(p) =>
         LET sha == Sha256Differs(req[p], Digested(p))
             md5 == Md5Differs(req[p], Digested(p))
         IN /\ (req'[p].pc # "done") <=> (~sha /\ ~md5)
            /\ sha => req'[p].result = Sha256Error
            /\ (md5 /\ ~sha) => req'[p].result = Md5Error
            /\ req[p].pc = "blocks" =>
                 /\ req[p].md5hasher = BodyOf(req[p])
                 /\ req[p].sha256hasher = BodyOf(req[p])
            /\ (req[p].pc = "begin" /\ Len(BodyOf(req[p])) <= block_size) =>
                 Digested(p) = BodyOf(req[p])]_vars

\* a streaming PUT whose two checksums were both wrong was rejected for the
\* SHA-256
C28_Witness ==
  \E p \in Reqs :
    /\ PutDone(p) /\ Streaming(p) /\ req[p].failed_at = "blocks"
    /\ Sha256Differs(req[p], BodyOf(req[p])) /\ Md5Differs(req[p], BodyOf(req[p]))
    /\ req[p].result = Sha256Error

\* a PUT with a quoted MD5 and a SHA-256, both right, passed the validation
C28_WitnessQuoted ==
  \E p \in Reqs :
    /\ req[p].op = "put" /\ req[p].pc = "quotas"
    /\ req[p].content_md5.some /\ req[p].content_md5.val.quoted
    /\ req[p].content_sha256.some
    /\ ~Sha256Differs(req[p], BodyOf(req[p])) /\ ~Md5Differs(req[p], BodyOf(req[p]))

IsLowerHex(str) == \A i \in DOMAIN str : \E k \in DOMAIN HexChars : HexChars[k] = str[i]
IsHex(str) == \A i \in DOMAIN str : IsHexChar(str[i])

\* the step on which a request with an upload id arrives
Arrives(p) == req[p].op = "none" /\ req'[p].op = "abort"
DecodeAccepts(p) == req'[p].pc = "abort_read"
DecodeRejects(p) ==
  /\ req'[p].pc = "done" /\ req'[p].failed_at = "decode_upload_id"
  /\ req'[p].result = ErrRes("NoSuchUpload", "")

C29_WitnessUpperCase ==
  \E p \in Reqs :
    /\ req[p].op = "abort" /\ req[p].upload_id = UpperCase(UploadIdOf(171))
    /\ req[p].upload_id # UploadIdOf(171)
    /\ req[p].uuid = 171 /\ req[p].failed_at # "decode_upload_id"

\* some version of the object row becomes Aborted on the step
WritesAborted ==
  \E v \in object_table' : v.state = Aborted /\ v \notin object_table

\* C30: no step removes a Version row, a block entry or a part etag of a
\* Version row, a BlockRef row or a block, and no BlockRef row is marked
\* deleted; a step that makes a version Aborted changes the object row alone
C30_NothingDeleted ==
  [][/\ DOMAIN version_table \subseteq DOMAIN version_table'
     /\ \A uuid \in DOMAIN version_table :
          /\ DOMAIN version_table[uuid].blocks \subseteq DOMAIN version_table'[uuid].blocks
          /\ DOMAIN version_table[uuid].parts_etags
               \subseteq DOMAIN version_table'[uuid].parts_etags
     /\ block_ref_table \subseteq block_ref_table'
     /\ \A b \in block_ref_table' : ~b.deleted
     /\ block_store \subseteq block_store'
     /\ WritesAborted =>
          <<version_table, block_ref_table, block_store>>' =
            <<version_table, block_ref_table, block_store>>]_vars

\* the cleanup task of a failed PUT has made its version Aborted, and the
\* Version row, its block entry, the BlockRef row and the block are in place
C30_Witness ==
  \E p \in Reqs :
    /\ req[p].op = "put" /\ req[p].cleanup = "done"
    /\ \E v \in VersionsOf(req[p].uuid) : v.state = Aborted
    /\ req[p].uuid \in DOMAIN version_table
    /\ \E k \in DOMAIN version_table[req[p].uuid].blocks :
         LET hash == version_table[req[p].uuid].blocks[k].hash
         IN /\ BlockRef(hash, req[p].uuid) \in block_ref_table
            /\ hash \in block_store

\* the block entries of part 1 for a body cut into blocks of bs bytes
RECURSIVE BodyBlocks(_, _, _)
BodyBlocks(bytes, offset, bs) ==
  IF offset >= Len(bytes) THEN EmptyMap
  ELSE LET block == SubSeq(bytes, offset + 1, Min(offset + bs, Len(bytes)))
       IN MapPut(BodyBlocks(bytes, offset + Len(block), bs), VersionBlockKey(1, offset),
                 VersionBlock(Blake2sum(block), Len(block)))

\* the rows of the version of PUT p are those of its own upload: one
\* Complete version with its headers, size and etag, and for a streamed
\* body the block entries and BlockRef rows of its blocks
OwnVersion(p) ==
  LET r == req[p]
      body == BodyOf(r)
      meta == Meta(r.headers, Len(body), HexEncode(Md5sum(body)))
      blocks == BodyBlocks(body, 0, block_size)
  IN IF Len(body) < INLINE_THRESHOLD
     THEN /\ VersionsOf(r.uuid) = {ObjectVersion(r.uuid, r.timestamp, CompleteInline(meta, body))}
          /\ r.uuid \notin DOMAIN version_table
          /\ \A b \in block_ref_table : b.version # r.uuid
     ELSE /\ VersionsOf(r.uuid) =
               {ObjectVersion(r.uuid, r.timestamp,
                              CompleteFirstBlock(meta, blocks[VersionBlockKey(1, 0)].hash))}
          /\ r.uuid \in DOMAIN version_table
          /\ version_table[r.uuid] = [NewVersion(r.uuid) EXCEPT !.blocks = blocks]
          /\ {b \in block_ref_table : b.version = r.uuid} =
               {BlockRef(blocks[k].hash, r.uuid) : k \in DOMAIN blocks}

\* the step leaves the rows of the versions other than uuid as they are
OthersUntouched(uuid) ==
  /\ {v \in object_table' : v.uuid # uuid} = {v \in object_table : v.uuid # uuid}
  /\ DOMAIN version_table' \ {uuid} = DOMAIN version_table \ {uuid}
  /\ \A u \in DOMAIN version_table \ {uuid} : version_table'[u] = version_table[u]
  /\ {b \in block_ref_table' : b.version # uuid} = {b \in block_ref_table : b.version # uuid}

\* C31: two PUTs of the key that both succeeded have distinct uuids and each
\* has left its own Complete version, with its own state, metadata and
\* blocks; a step of a PUT or of its cleanup task changes no object row,
\* Version row or BlockRef row of another version uuid
C31_ConcurrentPuts ==
  [][/\ \A p, q \in Reqs : (p # q /\ PutOk(p)' /\ PutOk(q)') =>
          /\ req'[p].uuid # req'[q].uuid
          /\ OwnVersion(p)' /\ OwnVersion(q)'
     /\ \A p \in Reqs : (req'[p] # req[p] /\ req'[p].op = "put") =>
          OthersUntouched(req'[p].uuid)]_vars

\* two PUTs with different headers and bodies ran at the same time, both
\* streaming, and both succeeded
C31_Witness ==
  /\ PutOk(1) /\ PutOk(2)
  /\ req[1].headers # req[2].headers /\ req[1].body # req[2].body
  /\ Streaming(1) /\ Streaming(2)
  /\ OwnVersion(1) /\ OwnVersion(2)
  /\ \E h \in history : h.by = 2 /\ h.tag = "Uploading"
  /\ req[1].timestamp = req[2].timestamp


\* the decimal numeral of a number below 1000
Numeral(k) ==
  LET d(i) == Digits[i + 1]
  IN IF k < 10 THEN <<d(k)>>
     ELSE IF k < 100 THEN <<d(k \div 10), d(k % 10)>>
     ELSE <<d(k \div 100), d((k \div 10) % 10), d(k % 10)>>

OctetNumerals == {Numeral(k) : k \in 0..255}

\* the name is written as an IP address: four numbers up to 255 with dots
\* between them
IsIpAddress(n) ==
  LET dots == {x \in DOMAIN n : n[x] = "."}
  IN \E i, j, k \in dots :
       /\ i < j /\ j < k /\ dots = {i, j, k}
       /\ SubSeq(n, 1, i - 1) \in OctetNumerals
       /\ SubSeq(n, i + 1, j - 1) \in OctetNumerals
       /\ SubSeq(n, j + 1, k - 1) \in OctetNumerals
       /\ SubSeq(n, k + 1, Len(n)) \in OctetNumerals

\* the rules of a bucket name: 3 to 63 characters from [a-z0-9.-], not
\* starting or ending with '-' or '.', not an IP address, not starting with
\* xn--, not ending with -s3alias
NameRules(n) ==
  /\ Len(n) \in 3..63
  /\ \A i \in DOMAIN n : n[i] \in LowerLetters \cup {".", "-"} \cup {Digits[k] : k \in DOMAIN Digits}
  /\ n[1] \notin {"-", "."} /\ n[Len(n)] \notin {"-", "."}
  /\ ~IsIpAddress(n)
  /\ ~(Len(n) >= 4 /\ SubSeq(n, 1, 4) = <<"x", "n", "-", "-">>)
  /\ ~(Len(n) >= 8 /\ SubSeq(n, Len(n) - 7, Len(n)) = <<"-", "s", "3", "a", "l", "i", "a", "s">>)

BadGlobalAlias(r) == r.global_alias.some /\ ~NameRules(r.global_alias.val)
BadLocalAlias(r) == r.local_alias.some /\ ~NameRules(r.local_alias.val.alias)
GlobalAliasExists(r) ==
  /\ r.global_alias.some
  /\ r.global_alias.val \in DOMAIN bucket_alias_table
  /\ ~bucket_alias_table[r.global_alias.val].deleted

AdminDone(p) == admin[p].pc = "done"
AdminTables == <<bucket_table, bucket_alias_table, key_table>>

\* C32 as claimed: with no failed table call, a request whose global or
\* local alias breaks the name rules ends with BadRequest, one whose global
\* alias was found ends with BucketAlreadyExists, and neither has inserted a
\* bucket or an alias
C32_EveryBadAliasBadRequest ==
  \A p \in AdminReqs : (AdminDone(p) /\ faults = MaxFaults) =>
    /\ (BadGlobalAlias(admin[p]) \/ BadLocalAlias(admin[p])) =>
         admin[p].result.kind = "BadRequest" /\ admin[p].writes = 0
    /\ admin[p].alias_found =>
         admin[p].result = BucketAlreadyExists /\ admin[p].writes = 0

\* C32: a step of the handler changes the bucket, alias and key tables only
\* when every requested alias keeps the name rules and both alias checks
\* are behind it; the checks run in the order global name, global alias
\* read, local name, and the first that fails decides the error: BadRequest
\* for a name that breaks the rules, BucketAlreadyExists for a global alias
\* that is present, both without a write of the request
C32_CreateBucket ==
  [][\A p \in AdminReqs : admin'[p] # admin[p] =>
       LET r == admin[p]
           failed == admin'[p].result = InternalError
       IN /\ AdminTables' # AdminTables =>
               /\ ~BadGlobalAlias(r) /\ ~BadLocalAlias(r)
               /\ r.pc \notin {"idle", "check_global", "check_local"}
          /\ (r.pc = "check_global" /\ BadGlobalAlias(r)) =>
               /\ admin'[p].pc = "done" /\ admin'[p].result.kind = "BadRequest"
               /\ admin'[p].writes = 0
          /\ (r.pc = "check_global" /\ ~BadGlobalAlias(r) /\ GlobalAliasExists(r) /\ ~failed) =>
               /\ admin'[p].pc = "done" /\ admin'[p].result = BucketAlreadyExists
               /\ admin'[p].writes = 0
          /\ (r.pc = "check_global" /\ ~BadGlobalAlias(r) /\ ~GlobalAliasExists(r) /\ ~failed) =>
               admin'[p].pc = "check_local"
          /\ (r.pc = "check_local" /\ BadLocalAlias(r)) =>
               /\ admin'[p].pc = "done" /\ admin'[p].result.kind = "BadRequest"
               /\ admin'[p].writes = 0]_vars

\* requests have ended with BadRequest for a global alias and for a local
\* alias that breaks the rules, one of them after a bucket with a valid
\* alias was created
C32_Witness ==
  /\ AdminDone(1) /\ AdminDone(2)
  /\ admin[1].result = OkRes /\ admin[1].writes = 4
  /\ admin[1].global_alias = Some(LongName(63))
  /\ admin[2].result.kind = "BadRequest" /\ BadLocalAlias(admin[2])
  /\ ~BadGlobalAlias(admin[2])
  /\ Cardinality(bucket_table) = 1

\* a request ended with BucketAlreadyExists for the alias an earlier request
\* of the run created
C32_WitnessExists ==
  /\ AdminDone(1) /\ AdminDone(2)
  /\ admin[1].result = OkRes /\ admin[2].result = BucketAlreadyExists
  /\ admin[1].global_alias = admin[2].global_alias
  /\ admin[2].writes = 0

\* a request ended with BadRequest for a global alias written as an IP
\* address
C32_WitnessIpAddress ==
  /\ AdminDone(1) /\ admin[1].result.kind = "BadRequest"
  /\ IsIpAddress(admin[1].global_alias.val) /\ admin[1].writes = 0


StatusOf(kind, inner) ==
  {r.status : r \in {responses[i] : i \in {j \in DOMAIN responses :
                                            /\ responses[j].error.kind = kind
                                            /\ inner \in {"any", responses[j].error.inner}}}}

\* C33: the status sent for an error is 403 for Forbidden, 404 for NotFound,
\* 503 for an internal error that wraps an RPC failure, 500 for every other
\* internal error and for Hyper and HTTP errors, and 400 for BadRequest,
\* invalid XML, invalid header, invalid UTF-8, invalid base64 and invalid
\* range
C33_StatusCodes ==
  /\ StatusOf("Forbidden", "any") \subseteq {403}
  /\ StatusOf("NotFound", "any") \subseteq {404}
  /\ StatusOf("InternalError", "RPC") \subseteq {503}
  /\ \A g \in GarageErrors \ {"RPC"} : StatusOf("InternalError", g) \subseteq {500}
  /\ StatusOf("Hyper", "any") \subseteq {500}
  /\ StatusOf("HTTP", "any") \subseteq {500}
  /\ \A k \in {"BadRequest", "InvalidXML", "InvalidHeader", "InvalidUTF8Str",
               "InvalidUTF8String", "InvalidBase64", "InvalidRange"} :
       StatusOf(k, "any") \subseteq {400}
  /\ \A i \in DOMAIN responses :
       responses[i].error.kind \in
         {"Forbidden", "NotFound", "InternalError", "Hyper", "HTTP", "BadRequest",
          "InvalidXML", "InvalidHeader", "InvalidUTF8Str", "InvalidUTF8String",
          "InvalidBase64", "InvalidRange"}

\* an internal error that wraps an RPC failure and one that does not have
\* both been answered
C33_Witness ==
  /\ StatusOf("InternalError", "RPC") = {503}
  /\ StatusOf("InternalError", "Message") = {500}

\* a Forbidden error with its message has been answered after an invalid
\* range
C33_WitnessForbidden ==
  /\ Len(responses) = 2
  /\ responses[1].error.kind = "InvalidRange" /\ responses[1].status = 400
  /\ responses[2].error = ApiError("Forbidden", "Quota exceeded") /\ responses[2].status = 403


\* the data, the block entry and the BlockRef row of the current block of
\* the request are stored
CurrentBlockStored(r) ==
  /\ r.cur.hash \in block_store
  /\ r.version.uuid \in DOMAIN version_table
  /\ VersionBlockKey(r.part_number, r.cur.offset) \in DOMAIN version_table[r.version.uuid].blocks
  /\ version_table[r.version.uuid].blocks[VersionBlockKey(r.part_number, r.cur.offset)] =
       VersionBlock(r.cur.hash, Len(r.cur.block))
  /\ BlockRef(r.cur.hash, r.version.uuid) \in block_ref_table

\* the step starts the upload of the next block
StartsNextBlock(p) ==
  InBlocks(p) /\ req'[p].pc = "blocks" /\ req'[p].cur # req[p].cur

\* the blocks the loop holds: the current one and the one read ahead
HeldBlocks(r) == <<r.cur.block>> \o (IF r.next_block.some THEN <<r.next_block.val>> ELSE <<>>)

\* C34: in read_and_put_blocks the upload and the metadata write of the next
\* block start in one step, only when the data, the block entry and the
\* BlockRef row of the current block are stored; every write of the loop is
\* for the current block, which with the block read ahead makes at most two
\* blocks held; when a call fails the request returns the error in that
\* step, and a request that returned writes no block, block entry or
\* BlockRef row any more
C34_BlockPipeline ==
  [][\A p \in Reqs :
       /\ StartsNextBlock(p) =>
            /\ \A f \in {"data", "version", "block_ref"} : req[p].fut[f] = "done"
            /\ CurrentBlockStored(req[p])
            /\ req'[p].fut = NewFut
            /\ req'[p].cur.offset = req[p].cur.offset + Len(req[p].cur.block)
            /\ req[p].next_block = Some(req'[p].cur.block)
            /\ tableVars' = tableVars
       /\ (InBlocks(p) /\ req'[p] # req[p]) =>
            /\ block_store' \in {block_store, block_store \cup {req[p].cur.hash}}
            /\ block_ref_table' \in
                 {block_ref_table,
                  block_ref_table \cup {BlockRef(req[p].cur.hash, req[p].version.uuid)}}
            /\ version_table' # version_table =>
                 version_table' = VersionInsert(version_table, BlockMetaVersion(req[p]))
            /\ Len(HeldBlocks(req[p])) <= 2
            /\ \A i \in DOMAIN HeldBlocks(req[p]) : Len(HeldBlocks(req[p])[i]) <= block_size
       /\ (InBlocks(p) /\ faults' < faults /\ req'[p] # req[p]) =>
            /\ req'[p].pc = "done" /\ req'[p].result \in {InternalError, Dropped}
            /\ tableVars' = tableVars
       /\ req[p].pc = "done" => req'[p].writes = req[p].writes]_vars

\* a call failed while the second of at least three blocks was written: the
\* request returned the error with the first block stored and no third
\* block uploaded
C34_Witness ==
  \E p \in Reqs :
    /\ req[p].op = "put" /\ req[p].pc = "done"
    /\ req[p].result = InternalError /\ req[p].failed_at = "blocks"
    /\ Len(BodyOf(req[p])) > 2 * block_size
    /\ req[p].writes.block = 2 /\ req[p].writes.block_ref = 1
    /\ Cardinality(DOMAIN version_table[req[p].uuid].blocks) = 1

\* a body of three blocks was uploaded block after block
C34_WitnessThreeBlocks ==
  /\ PutOk(1) /\ req[1].writes.block = 3 /\ req[1].writes.block_ref = 3
  /\ Cardinality(DOMAIN version_table[req[1].uuid].blocks) = 3


\* the Uploading row and the Version row of the PUT are in the tables
Reserved(r) ==
  /\ \E v \in object_table : v.uuid = r.uuid /\ v.timestamp = r.timestamp /\ IsUploading(v)
  /\ r.uuid \in DOMAIN version_table

\* C35: a step of a streaming PUT that stores a block, a BlockRef row or a
\* block entry is taken with the Uploading object row and the Version row of
\* the PUT both inserted, the object row first; the Version row is inserted
\* empty, before any block or BlockRef row of the version
C35_ReservedBeforeBlocks ==
  [][\A p \in Reqs : (req[p].op = "put" /\ req'[p] # req[p] /\ req[p].pc # "done") =>
       LET r == req[p]
       IN /\ (\/ block_store' # block_store
              \/ block_ref_table' # block_ref_table
              \/ (r.uuid \in DOMAIN version_table /\ version_table' # version_table)) =>
               /\ Reserved(r)
               /\ HasWritten(p, "object", "Uploading") /\ HasWritten(p, "version", "new")
               /\ r.writes.object = 1 /\ r.writes.version >= 1
          /\ (r.uuid \notin DOMAIN version_table /\ version_table' # version_table) =>
               /\ \E v \in object_table :
                    v.uuid = r.uuid /\ v.timestamp = r.timestamp /\ IsUploading(v)
               /\ version_table' = VersionInsert(version_table, NewVersion(r.uuid))
               /\ r.writes.block = 0 /\ r.writes.block_ref = 0
               /\ \A b \in block_ref_table : b.version # r.uuid]_vars

\* the first block of a streaming PUT has been sent, with the Uploading row
\* and the Version row in place and no BlockRef row written yet
C35_Witness ==
  \E p \in Reqs :
    /\ req[p].op = "put" /\ InBlocks(p) /\ Reserved(req[p])
    /\ req[p].writes = [object |-> 1, version |-> 1, block_ref |-> 0, block |-> 1]
    /\ req[p].cur.hash \in block_store


\* the block entries of the Version row of the upload of request r
EntriesOf(r) ==
  IF r.uuid \in DOMAIN version_table THEN DOMAIN version_table[r.uuid].blocks ELSE {}

DataStored(r, k) == version_table[r.uuid].blocks[k].hash \in block_store

\* C36 as claimed: every block entry visible in a Version row has its data
\* in the block store
C36_DataBeforeEntry ==
  \A uuid \in DOMAIN version_table : \A k \in DOMAIN version_table[uuid].blocks :
    version_table[uuid].blocks[k].hash \in block_store

\* C36: while a PUT writes its blocks, every block entry of its Version row
\* below the offset of the current block has its data in the block store,
\* and after the loop every block entry has; the entry of the current block
\* and its data become visible in either order
C36_DataBeforeNextBlock ==
  \A p \in Reqs : req[p].op = "put" =>
    /\ InBlocks(p) =>
         \A k \in EntriesOf(req[p]) : k[2] < req[p].cur.offset => DataStored(req[p], k)
    /\ (req[p].pc \in {"quotas", "insert_complete"} \/ (PutOk(p) /\ Streaming(p))) =>
         \A k \in EntriesOf(req[p]) : DataStored(req[p], k)

\* the entry of the second block of a PUT is in the Version row, the data of
\* the first block is stored and the data of the second is not yet
C36_Witness ==
  \E p \in Reqs :
    /\ req[p].op = "put" /\ InBlocks(p) /\ req[p].cur.offset > 0
    /\ VersionBlockKey(1, req[p].cur.offset) \in EntriesOf(req[p])
    /\ DataStored(req[p], VersionBlockKey(1, 0))
    /\ req[p].cur.hash \notin block_store

\* the data of the second block of a PUT is stored and its entry is not yet
\* in the Version row
C36_WitnessDataFirst ==
  \E p \in Reqs :
    /\ req[p].op = "put" /\ InBlocks(p) /\ req[p].cur.offset > 0
    /\ VersionBlockKey(1, req[p].cur.offset) \notin EntriesOf(req[p])
    /\ req[p].fut.data = "done" /\ req[p].cur.hash \in block_store
    /\ req[p].cur.hash # version_table[req[p].uuid].blocks[VersionBlockKey(1, 0)].hash


\* the step on which read_and_put_blocks returns its result
LoopReturns(p) ==
  InBlocks(p) /\ req'[p].pc # "blocks" /\ req'[p].total_size = req[p].next_offset

\* C37: on the step on which read_and_put_blocks returns success, every
\* block of the body has its data stored under its hash, its entry
\* (part, offset) -> (hash, size) in the Version row and its BlockRef row
\* with deleted = false, and the total size returned is the sum of the
\* sizes of the blocks
C37_BlocksRecorded ==
  [][\A p \in Reqs : LoopReturns(p) =>
       LET r == req[p]
           blocks == BodyBlocks(BodyOf(r), 0, block_size)
       IN /\ r.uuid \in DOMAIN version_table
          /\ \A k \in DOMAIN blocks :
               LET key == VersionBlockKey(r.part_number, k[2])
               IN /\ blocks[k].hash \in block_store
                  /\ key \in DOMAIN version_table[r.uuid].blocks
                  /\ version_table[r.uuid].blocks[key] = blocks[k]
                  /\ BlockRef(blocks[k].hash, r.uuid) \in block_ref_table
                  /\ ~BlockRef(blocks[k].hash, r.uuid).deleted
          /\ req'[p].total_size = SumOver(DOMAIN blocks, [k \in DOMAIN blocks |-> blocks[k].size])
          /\ req'[p].total_size = Len(BodyOf(r))]_vars

\* a PutPart got through its block loop with a body of two blocks
C37_LoopReturned ==
  \E p \in Reqs :
    /\ req[p].op = "putpart" /\ req[p].pc = "insert_etag"
    /\ req[p].total_size > block_size


\* the object row holds the version uuid in state Complete
CompleteIn(row, uuid) == \E v \in row : v.uuid = uuid /\ IsComplete(v)

\* C38: no step changes the blocks or the parts_etags of the Version row of
\* a version that is Complete in the object row
C38_CompleteVersionFrozen ==
  [][\A uuid \in DOMAIN version_table :
       CompleteIn(object_table, uuid) => version_table'[uuid] = version_table[uuid]]_vars


\* the blocks the Version row records under part n, by offset
BlocksUnder(v, n) ==
  [o \in {k[2] : k \in PartKeys(v.blocks, n)} |-> v.blocks[VersionBlockKey(n, o)]]

\* the blocks of the body whose MD5 is the etag, by offset
BlocksOfEtag(etag) ==
  LET blocks == BodyBlocks(etag.hex.of, 0, block_size)
  IN [o \in {k[2] : k \in DOMAIN blocks} |-> blocks[VersionBlockKey(1, o)]]

\* C39: on the step on which CompleteMultipartUpload returns success, the
\* blocks the Version row records under each part with an etag are the
\* blocks of the body whose MD5 is that etag
C39_BlocksMatchEtags ==
  [][\A p \in Reqs : ReturnsOk(p, "complete") =>
       LET v == version_table[req[p].uuid]
       IN \A n \in DOMAIN v.parts_etags :
            BlocksUnder(v, n) = BlocksOfEtag(v.parts_etags[n])]_vars


\* the number of blocks the chunker hands out before it returns None
RECURSIVE EmittedBlocks(_)
EmittedBlocks(c) ==
  LET n == ChunkerNext(c)
  IN IF n.kind = "Some" THEN 1 + EmittedBlocks(n.c) ELSE 0

\* the request went through read_and_put_blocks: every PutPart, and a PUT
\* whose first block is not stored inline
Streamed(r) ==
  \/ r.op = "putpart"
  \/ /\ r.op = "put"
     /\ Len(ChunkerNext(NewChunker(r.body, block_size)).block) >= INLINE_THRESHOLD

InHandler(p) == req[p].op \in {"put", "putpart"} /\ req[p].pc # "done"

OneIterationPerBlock ==
  \A p \in Reqs :
    (ReturnsOk(p, "put") \/ ReturnsOk(p, "putpart")) /\ Streamed(req[p]) =>
      req'[p].writes.block = EmittedBlocks(NewChunker(req[p].body, block_size))

\* C40: when every call returns, a request in save_stream or in
\* handle_put_part eventually returns, and a request that went through the
\* block pipeline and returns success ran one iteration for each block the
\* chunker hands out for its body
C40_Returns ==
  /\ \A p \in Reqs : InHandler(p) ~> (req[p].pc = "done")
  /\ [][OneIterationPerBlock]_vars

\* a PutPart of three blocks returned success
C40_Witness ==
  \E p \in Reqs : /\ req[p].op = "putpart" /\ req[p].result = OkRes
                   /\ req[p].writes.block = 3

\* a PUT of two blocks returned success
C40_WitnessPut ==
  \E p \in Reqs : /\ req[p].op = "put" /\ req[p].result = OkRes
                   /\ req[p].writes.block = 2

\* a request returned with the error of its body stream after one block
C40_WitnessStreamError ==
  \E p \in Reqs : req[p].pc = "done" /\ req[p].result = StreamError
                    /\ req[p].writes.block = 1


(* ---- the chunker on its own ---- *)
InitChunker ==
  /\ IdleAdmin
  /\ EmptyTables /\ faults = 0 /\ block_size = 0 /\ quotas = NoQuotas /\ object_table = {}
  /\ req = [p \in Reqs |-> IdleReq]
  /\ source \in Streams
  /\ \E bs \in 1..MaxBlockSize : chunker = NewChunker(source, bs)
  /\ emitted = <<>>

CallNext ==
  /\ Len(emitted) < MaxCalls
  /\ LET r == ChunkerNext(chunker)
     IN /\ chunker' = r.c
        /\ emitted' = Append(emitted, [kind |-> r.kind, block |-> r.block])
  /\ UNCHANGED <<source, coreVars, adminVars>>

NextChunker == CallNext

SpecChunker == InitChunker /\ [][NextChunker]_vars

(* ---- properties of the chunker ---- *)
RECURSIVE ConcatBlocks(_)
ConcatBlocks(es) ==
  IF es = <<>> THEN <<>>
  ELSE (IF Head(es).kind = "Some" THEN Head(es).block ELSE <<>>) \o ConcatBlocks(Tail(es))

SawNone == \E i \in 1..Len(emitted) : emitted[i].kind = "None"

\* C3: for an error-free stream, however it is split into chunks, the
\* blocks returned by next until it returns None, concatenated in order,
\* are the bytes of the stream
C3_ChunkingRoundTrip ==
  (ErrorFree(source) /\ SawNone) => ConcatBlocks(emitted) = StreamBytes(source)

C3_Witness ==
  /\ ErrorFree(source) /\ SawNone
  /\ Len(source) = 3 /\ Len(source[1].bytes) = 1 /\ Len(source[2].bytes) = 2
  /\ chunker.block_size = 2
  /\ Len(emitted) >= 3 /\ emitted[1].kind = "Some" /\ emitted[2].kind = "Some"
  /\ ConcatBlocks(emitted) = StreamBytes(source)

\* C4: for an error-free stream every block but the last has exactly
\* block_size bytes, the last has at most block_size bytes, a stream of
\* zero bytes gives None at the first call, and None is followed by None
C4_BlockSizes ==
  ErrorFree(source) =>
    /\ \A i \in 1..Len(emitted) :
         /\ emitted[i].kind # "Err"
         /\ emitted[i].kind = "Some" =>
              /\ Len(emitted[i].block) <= chunker.block_size
              /\ (i < Len(emitted) /\ emitted[i + 1].kind = "Some")
                   => Len(emitted[i].block) = chunker.block_size
         /\ (emitted[i].kind = "None" /\ i < Len(emitted)) => emitted[i + 1].kind = "None"
    /\ (StreamBytes(source) = <<>> /\ Len(emitted) >= 1) => emitted[1].kind = "None"

C4_Witness ==
  /\ ErrorFree(source) /\ chunker.block_size = 2
  /\ Len(StreamBytes(source)) = 5
  /\ Len(emitted) = 5
  /\ Len(emitted[1].block) = 2 /\ Len(emitted[2].block) = 2 /\ Len(emitted[3].block) = 1
  /\ emitted[4].kind = "None" /\ emitted[5].kind = "None"

====
